---- MODULE Spec2Model ----
(***************************************************************************)
(* A model of the BTF handling of libbpf-rs / libbpf-cargo:                *)
(*   - the binary decoder   (BtfLoader, Btf::new in libbpf-cargo btf.rs),  *)
(*   - the layout resolver  (size_of, align_of, is_struct_packed,          *)
(*                           skip_mods_and_typedefs),                      *)
(*   - the declaration generator (type_definition and its helpers).        *)
(*                                                                         *)
(* Bytes are numbers 0..255 and a buffer is a sequence of bytes.  A        *)
(* fallible Rust function returns a record [tag, val]: tag "Ok" with the   *)
(* value, "Err" for an Err(..) result, "Panic" for a trap (a Rust panic,   *)
(* a fault), "Hang" for a loop that never ends and "Overflow" for a        *)
(* recursion that never ends (the stack overflows).                        *)
(***************************************************************************)
EXTENDS Integers, Sequences, FiniteSets, TLC

VARIABLES
    data,        \* Btf::new: the raw BTF bytes (raw_data_copy)
    dpc,         \* Btf::new: "hdr" (before the header), "load" (in load_now), "done"
    str_data,    \* Btf::new: the string table slice
    type_data,   \* Btf::new: the type table slice
    off,         \* load_now: the scan offset into type_data
    ltypes,      \* load_now: the local vector `types`
    anon_count,  \* BtfLoader.anon_count
    dres,        \* what Btf::new returned: "run" (not yet), "ok", "err", "panic"
    built,       \* whether a Btf value exists (was returned to the caller)
    types,       \* Btf.types of that value
    ptr_size,    \* Btf.ptr_size
    checked,     \* the build: TRUE when integer overflow panics (overflow-checks, the
                 \* debug profile), FALSE when it wraps (the release profile)
    qop,         \* the query running or last run on the Btf ("none" at first)
    qarg,        \* its type id argument
    qret,        \* its result
    cur,         \* the loop variable of a running unwrap loop
    tick,        \* parity of the iterations a running loop has made
    qerrs,       \* how many earlier queries of this Btf returned an error
    returned,    \* what the calls the caller has taken the result of returned
    dependent_types, \* type_definition: the worklist
    processed,   \* type_definition: the ids taken off the worklist so far
    def,         \* type_definition: the declarations written so far, in order
    gpc,         \* type_definition: "idle", "loop" (in the while loop), "spin" (in an
                 \* inner loop that never returns), "done"
    rs_pc,       \* libbpf-rs: where the caller of its Btf is: "idle" (no call yet),
                 \* "open" (in from_raw, the bpf_object is open), "live" (it holds a
                 \* Btf), "dropped", "returned" (the call returned no Btf), "panic"
    rs_op,       \* libbpf-rs: the call made last
    rs_name,     \* libbpf-rs: the name or path given to it
    rs_ret,      \* libbpf-rs: what it returned
    rs_libbpf,   \* what libbpf answers to the calls made into it
    drop_policy, \* Btf.drop_policy of the Btf returned ("none" while there is none)
    rs_btfs,     \* the btf handles libbpf allocated for btf__parse_elf and
                 \* btf__load_from_kernel_by_id
    rs_frees,    \* the calls of btf__free
    rs_objs,     \* the bpf_objects libbpf opened for bpf_object__open_mem
    rs_closes    \* the calls of bpf_object__close

vars == <<data, dpc, str_data, type_data, off, ltypes, anon_count, dres,
          built, types, ptr_size, checked, qop, qarg, qret, cur, tick, qerrs, returned,
          dependent_types, processed, def, gpc,
          rs_pc, rs_op, rs_name, rs_ret, rs_libbpf, drop_policy,
          rs_btfs, rs_frees, rs_objs, rs_closes>>

decVars == <<data, dpc, str_data, type_data, off, ltypes, anon_count, dres>>
btfVars == <<built, types, ptr_size, checked>>
qryVars == <<qop, qarg, qret, cur, tick, qerrs, returned>>
genVars == <<dependent_types, processed, def, gpc>>
rsVars == <<rs_pc, rs_op, rs_name, rs_ret, rs_libbpf, drop_policy,
            rs_btfs, rs_frees, rs_objs, rs_closes>>

(***************************************************************************)
(* Results                                                                 *)
(***************************************************************************)
Ok(v) == [tag |-> "Ok", val |-> v]
Fail(t) == [tag |-> t, val |-> 0]
IsOk(r) == r.tag = "Ok"

\* the element of a set of one element; The({e : x \in {v}}) is e with v for x, and
\* v is computed once however often e refers to x
The(S) == CHOOSE x \in S : TRUE

Min(a, b) == IF a <= b THEN a ELSE b
Max(a, b) == IF a >= b THEN a ELSE b
SetMin(S) == CHOOSE x \in S : \A y \in S : x <= y
SetMax(S) == CHOOSE x \in S : \A y \in S : x >= y

(***************************************************************************)
(* The decoded type nodes (BtfType).  One record shape for every variant;  *)
(* a variant uses the fields it has in the source and leaves the others    *)
(* at their Blank value.  type_id holds the one referenced id of Ptr       *)
(* (pointee_type), Array (val_type_id), Typedef, Volatile, Const,          *)
(* Restrict, Func, Var, DeclTag, TypeTag and FuncProto (ret_type_id).      *)
(***************************************************************************)
Blank ==
    [kind |-> "Void", name |-> <<>>, type_id |-> 0, size |-> 0, bits |-> 0,
     offset |-> 0, encoding |-> "None", nelems |-> 0, index_type_id |-> 0,
     members |-> <<>>, values |-> <<>>, params |-> <<>>, vars |-> <<>>,
     linkage |-> "Static", signed |-> FALSE, fwd_kind |-> "Struct",
     component_idx |-> 0]

BtfVoid == Blank
BtfInt(n, b, o, e) == [Blank EXCEPT !.kind = "Int", !.name = n, !.bits = b,
                                    !.offset = o, !.encoding = e]
BtfFloat(n, s) == [Blank EXCEPT !.kind = "Float", !.name = n, !.size = s]
BtfPtr(t) == [Blank EXCEPT !.kind = "Ptr", !.type_id = t]
BtfArray(n, i, t) == [Blank EXCEPT !.kind = "Array", !.nelems = n,
                                   !.index_type_id = i, !.type_id = t]
BtfStruct(n, s, m) == [Blank EXCEPT !.kind = "Struct", !.name = n, !.size = s,
                                    !.members = m]
BtfUnion(n, s, m) == [Blank EXCEPT !.kind = "Union", !.name = n, !.size = s,
                                   !.members = m]
BtfEnum(n, s, v) == [Blank EXCEPT !.kind = "Enum", !.name = n, !.size = s,
                                  !.values = v]
BtfEnum64(n, s, sg, v) == [Blank EXCEPT !.kind = "Enum64", !.name = n, !.size = s,
                                        !.signed = sg, !.values = v]
BtfFwd(n, k) == [Blank EXCEPT !.kind = "Fwd", !.name = n, !.fwd_kind = k]
BtfTypedef(n, t) == [Blank EXCEPT !.kind = "Typedef", !.name = n, !.type_id = t]
BtfVolatile(t) == [Blank EXCEPT !.kind = "Volatile", !.type_id = t]
BtfConst(t) == [Blank EXCEPT !.kind = "Const", !.type_id = t]
BtfRestrict(t) == [Blank EXCEPT !.kind = "Restrict", !.type_id = t]
BtfFunc(n, t) == [Blank EXCEPT !.kind = "Func", !.name = n, !.type_id = t]
BtfFuncProto(t, p) == [Blank EXCEPT !.kind = "FuncProto", !.type_id = t, !.params = p]
BtfVar(n, t, l) == [Blank EXCEPT !.kind = "Var", !.name = n, !.type_id = t,
                                 !.linkage = l]
BtfDatasec(n, s, v) == [Blank EXCEPT !.kind = "Datasec", !.name = n, !.size = s,
                                     !.vars = v]
BtfDeclTag(n, t, c) == [Blank EXCEPT !.kind = "DeclTag", !.name = n, !.type_id = t,
                                     !.component_idx = c]
BtfTypeTag(n, t) == [Blank EXCEPT !.kind = "TypeTag", !.name = n, !.type_id = t]

BtfMember(n, t, bs, bo) == [name |-> n, type_id |-> t, bit_size |-> bs, bit_offset |-> bo]
BtfEnumValue(n, v) == [name |-> n, value |-> v]
BtfFuncParam(n, t) == [name |-> n, type_id |-> t]
BtfDatasecVar(t, o, s) == [type_id |-> t, offset |-> o, size |-> s]

(***************************************************************************)
(* Reading the buffer (scroll's pread, little endian)                      *)
(***************************************************************************)
\* pread::<T>(o) is an Err, not a trap, when the n bytes of T are not all there
CanRead(d, o, n) == o + n <= Len(d)
U8(d, o) == d[o + 1]
U16(d, o) == d[o + 1] + 256 * d[o + 2]
\* A u32 of 2^31 or more is beyond the checker's integers and is read as 2^31 - 1:
\* the decoder only stores such a value or compares it with a length of the buffer,
\* and every length here is far below it.
U32(d, o) == IF d[o + 4] >= 128 THEN 2147483647
             ELSE d[o + 1] + 256 * d[o + 2] + 65536 * d[o + 3] + 16777216 * d[o + 4]
I32(d, o) == IF d[o + 4] >= 128
             THEN d[o + 1] + 256 * d[o + 2] + 65536 * d[o + 3] - (256 - d[o + 4]) * 16777216
             ELSE U32(d, o)
\* the four bytes of a u32 kept as bytes: the info word, whose bit 31 is a flag
Word(d, o) == SubSeq(d, o + 1, o + 4)
Drop(d, n) == SubSeq(d, n + 1, Len(d))

\* sizes of the on-disk records (size_of::<btf_type>() and the like)
SzBtfType == 12
SzBtfHeader == 24
SzU32 == 4
SzBtfArray == 12
SzBtfMember == 12
SzBtfEnum == 8
SzBtfEnum64 == 12
SzBtfParam == 8
SzBtfDatasecVar == 12
SzBtfDeclTag == 4

get_vlen(info) == info[1] + 256 * info[2]
get_kind_flag(info) == (info[4] \div 128) = 1
get_kind(info) == info[4] % 32

\* BtfKind::try_from: the kind of a tag, "Unknown" for a tag that is no kind
KindNames == <<"Void", "Int", "Ptr", "Array", "Struct", "Union", "Enum", "Fwd",
               "Typedef", "Volatile", "Const", "Restrict", "Func", "FuncProto",
               "Var", "Datasec", "Float", "DeclTag", "TypeTag", "Enum64">>
BtfKindTryFrom(k) == IF k < Len(KindNames) THEN KindNames[k + 1] ELSE "Unknown"

\* BtfIntEncoding::try_from
BtfIntEncodingTryFrom(e) ==
    CASE e = 0 -> "None" [] e = 1 -> "Signed" [] e = 2 -> "Char" [] e = 4 -> "Bool"
      [] OTHER -> "Unknown"

\* BtfVarLinkage::try_from
BtfVarLinkageTryFrom(l) ==
    CASE l = 0 -> "Static" [] l = 1 -> "GlobalAlloc" [] l = 2 -> "GlobalExtern"
      [] OTHER -> "Unknown"

(***************************************************************************)
(* get_btf_str: &string_table[offset] traps when offset is not in the      *)
(* slice; CStr::from_ptr then scans for a NUL.  When the slice holds no    *)
(* NUL from offset on, the scan leaves the slice: undefined behaviour,     *)
(* whose outcome `ub` the caller draws: a fault ("Panic"), bytes that are  *)
(* no UTF-8 ("Err"), or a NUL right behind the slice ("Ok").               *)
(***************************************************************************)
UBOutcomes == {"Panic", "Err", "Ok"}

IsUtf8(s) == \A i \in 1..Len(s) : s[i] < 128

get_btf_str(string_table, offset, ub) ==
    IF offset >= Len(string_table) THEN [tag |-> "Panic", val |-> <<>>]
    ELSE LET nuls == {i \in (offset + 1)..Len(string_table) : string_table[i] = 0}
         IN  IF nuls = {}
             THEN IF ub = "Ok" /\ IsUtf8(Drop(string_table, offset))
                  THEN [tag |-> "Ok", val |-> Drop(string_table, offset)]
                  ELSE [tag |-> IF ub = "Ok" THEN "Err" ELSE ub, val |-> <<>>]
             ELSE LET s == SubSeq(string_table, offset + 1, SetMin(nuls) - 1)
                  IN  IF IsUtf8(s) THEN [tag |-> "Ok", val |-> s]
                      ELSE [tag |-> "Err", val |-> <<>>]

\* format!("{}", n) for an unsigned n, as bytes
RECURSIVE Decimal(_)
Decimal(n) == IF n < 10 THEN <<48 + n>> ELSE Decimal(n \div 10) \o <<48 + (n % 10)>>

\* "__anon_"
ANON_PREFIX == <<95, 95, 97, 110, 111, 110, 95>>

(***************************************************************************)
(* BtfLoader.  A loader returns [tag, val, anon]: the result, the decoded  *)
(* type and the value of anon_count after the call.  string_table and      *)
(* extra are byte sequences, t is the common header [name_off, info,       *)
(* type_id] (type_id is the size/type union of btf_type).                  *)
(***************************************************************************)
Loaded(ty, anon) == [tag |-> "Ok", val |-> ty, anon |-> anon]
NotLoaded(tag, anon) == [tag |-> tag, val |-> Blank, anon |-> anon]

\* a trailing array of vlen elements of sz bytes: each is pread, then decoded by
\* Elem (given the element's byte offset), and the first failure ends the loop
LoadVec(extra, vlen, sz, Elem(_)) ==
    LET avail == Len(extra) \div sz
        n == Min(vlen, avail)
        rs == [i \in 1..n |-> Elem((i - 1) * sz)]
        bad == {i \in 1..n : rs[i].tag # "Ok"}
    IN  IF bad # {} THEN [tag |-> rs[SetMin(bad)].tag, val |-> <<>>]
        ELSE IF vlen > avail THEN [tag |-> "Err", val |-> <<>>]
        ELSE [tag |-> "Ok", val |-> [i \in 1..n |-> rs[i].val]]

load_int(string_table, t, extra, ub) ==
    IF ~CanRead(extra, 0, SzU32) THEN NotLoaded("Err", 0)
    ELSE LET enc == extra[4] % 16
             o == extra[3]
             bits == extra[1]
             nm == get_btf_str(string_table, t.name_off, ub)
         IN  IF nm.tag # "Ok" THEN NotLoaded(nm.tag, 0)
             ELSE IF BtfIntEncodingTryFrom(enc) = "Unknown" THEN NotLoaded("Err", 0)
             ELSE Loaded(BtfInt(nm.val, bits, o, BtfIntEncodingTryFrom(enc)), 0)

load_float(string_table, t, ub) ==
    LET nm == get_btf_str(string_table, t.name_off, ub)
    IN  IF nm.tag # "Ok" THEN NotLoaded(nm.tag, 0)
        ELSE Loaded(BtfFloat(nm.val, t.type_id), 0)

load_array(extra) ==
    IF ~CanRead(extra, 0, SzBtfArray) THEN NotLoaded("Err", 0)
    ELSE Loaded(BtfArray(U32(extra, 8), U32(extra, 4), U32(extra, 0)), 0)

load_members(string_table, t, extra, ub) ==
    LET bits == get_kind_flag(t.info)
        Elem(o) ==
            LET nm == get_btf_str(string_table, U32(extra, o), ub)
            IN  IF nm.tag # "Ok" THEN [tag |-> nm.tag, val |-> 0]
                ELSE Ok(BtfMember(nm.val, U32(extra, o + 4),
                                  IF bits THEN extra[o + 12] ELSE 0,
                                  IF bits THEN extra[o + 9] + 256 * extra[o + 10]
                                                + 65536 * extra[o + 11]
                                          ELSE U32(extra, o + 8)))
    IN  LoadVec(extra, get_vlen(t.info), SzBtfMember, Elem)

\* a naming that does not count
AnonNameUncounted(string_table, t, anon, ub) ==
    LET nm == get_btf_str(string_table, t.name_off, ub)
    IN  IF nm.tag # "Ok" THEN [tag |-> nm.tag, val |-> <<>>, anon |-> anon]
        ELSE IF nm.val = <<>>
             THEN [tag |-> "Ok", val |-> ANON_PREFIX \o Decimal(anon + 1), anon |-> anon]
             ELSE [tag |-> "Ok", val |-> nm.val, anon |-> anon]

\* the name of a struct, union or enum: "" becomes "__anon_<n>" and counts
AnonName(string_table, t, anon, ub) ==
    LET nm == get_btf_str(string_table, t.name_off, ub)
    IN  IF nm.tag # "Ok" THEN [tag |-> nm.tag, val |-> <<>>, anon |-> anon]
        ELSE IF nm.val = <<>>
             THEN [tag |-> "Ok", val |-> ANON_PREFIX \o Decimal(anon + 1), anon |-> anon + 1]
             ELSE [tag |-> "Ok", val |-> nm.val, anon |-> anon]

load_struct(string_table, t, extra, anon, ub) ==
    LET nm == AnonName(string_table, t, anon, ub)
        ms == load_members(string_table, t, extra, ub)
    IN  IF nm.tag # "Ok" THEN NotLoaded(nm.tag, nm.anon)
        ELSE IF ms.tag # "Ok" THEN NotLoaded(ms.tag, nm.anon)
        ELSE Loaded(BtfStruct(nm.val, t.type_id, ms.val), nm.anon)

load_union(string_table, t, extra, anon, ub) ==
    LET nm == AnonName(string_table, t, anon, ub)
        ms == load_members(string_table, t, extra, ub)
    IN  IF nm.tag # "Ok" THEN NotLoaded(nm.tag, nm.anon)
        ELSE IF ms.tag # "Ok" THEN NotLoaded(ms.tag, nm.anon)
        ELSE Loaded(BtfUnion(nm.val, t.type_id, ms.val), nm.anon)

load_enum(string_table, t, extra, anon, ub) ==
    LET nm == AnonName(string_table, t, anon, ub)
        Elem(o) ==
            LET vn == get_btf_str(string_table, U32(extra, o), ub)
            IN  IF vn.tag # "Ok" THEN [tag |-> vn.tag, val |-> 0]
                ELSE Ok(BtfEnumValue(vn.val, I32(extra, o + 4)))
        vs == LoadVec(extra, get_vlen(t.info), SzBtfEnum, Elem)
    IN  IF nm.tag # "Ok" THEN NotLoaded(nm.tag, nm.anon)
        ELSE IF vs.tag # "Ok" THEN NotLoaded(vs.tag, nm.anon)
        ELSE Loaded(BtfEnum(nm.val, t.type_id, vs.val), nm.anon)

\* the 64-bit value is kept as its two halves <<val_lo32, val_hi32>>
load_enum64(string_table, t, extra, anon, ub) ==
    LET nm == AnonName(string_table, t, anon, ub)
        Elem(o) ==
            LET vn == get_btf_str(string_table, U32(extra, o), ub)
            IN  IF vn.tag # "Ok" THEN [tag |-> vn.tag, val |-> 0]
                ELSE Ok(BtfEnumValue(vn.val, <<Word(extra, o + 4), Word(extra, o + 8)>>))
        vs == LoadVec(extra, get_vlen(t.info), SzBtfEnum64, Elem)
    IN  IF nm.tag # "Ok" THEN NotLoaded(nm.tag, nm.anon)
        ELSE IF vs.tag # "Ok" THEN NotLoaded(vs.tag, nm.anon)
        ELSE Loaded(BtfEnum64(nm.val, t.type_id, get_kind_flag(t.info), vs.val), nm.anon)

load_fwd(string_table, t, ub) ==
    LET nm == get_btf_str(string_table, t.name_off, ub)
    IN  IF nm.tag # "Ok" THEN NotLoaded(nm.tag, 0)
        ELSE Loaded(BtfFwd(nm.val, IF get_kind_flag(t.info) THEN "Union" ELSE "Struct"), 0)

load_func_proto(string_table, t, extra, ub) ==
    LET Elem(o) ==
            LET pn == get_btf_str(string_table, U32(extra, o), ub)
            IN  IF pn.tag # "Ok" THEN [tag |-> pn.tag, val |-> 0]
                ELSE Ok(BtfFuncParam(pn.val, U32(extra, o + 4)))
        ps == LoadVec(extra, get_vlen(t.info), SzBtfParam, Elem)
    IN  IF ps.tag # "Ok" THEN NotLoaded(ps.tag, 0)
        ELSE Loaded(BtfFuncProto(t.type_id, ps.val), 0)

load_var(string_table, t, extra, ub) ==
    IF ~CanRead(extra, 0, SzU32) THEN NotLoaded("Err", 0)
    ELSE LET nm == get_btf_str(string_table, t.name_off, ub)
             \* a linkage of 2^24 or more is no linkage; only its low bytes are read here
             l == IF extra[4] # 0 THEN 3 ELSE U32(extra, 0)
         IN  IF nm.tag # "Ok" THEN NotLoaded(nm.tag, 0)
             ELSE IF BtfVarLinkageTryFrom(l) = "Unknown" THEN NotLoaded("Err", 0)
             ELSE Loaded(BtfVar(nm.val, t.type_id, BtfVarLinkageTryFrom(l)), 0)

load_datasec(string_table, t, extra, ub) ==
    LET Elem(o) == Ok(BtfDatasecVar(U32(extra, o), U32(extra, o + 4), U32(extra, o + 8)))
        vs == LoadVec(extra, get_vlen(t.info), SzBtfDatasecVar, Elem)
        nm == get_btf_str(string_table, t.name_off, ub)
    IN  IF vs.tag # "Ok" THEN NotLoaded(vs.tag, 0)
        ELSE IF nm.tag # "Ok" THEN NotLoaded(nm.tag, 0)
        ELSE Loaded(BtfDatasec(nm.val, t.type_id, vs.val), 0)

load_decl_tag(string_table, t, extra, ub) ==
    IF ~CanRead(extra, 0, SzBtfDeclTag) THEN NotLoaded("Err", 0)
    ELSE LET nm == get_btf_str(string_table, t.name_off, ub)
         IN  IF nm.tag # "Ok" THEN NotLoaded(nm.tag, 0)
             ELSE Loaded(BtfDeclTag(nm.val, t.type_id, I32(extra, 0)), 0)

\* a loader that names nothing and keeps anon_count
Named(string_table, t, ub, Make(_)) ==
    LET nm == get_btf_str(string_table, t.name_off, ub)
    IN  IF nm.tag # "Ok" THEN NotLoaded(nm.tag, 0) ELSE Loaded(Make(nm.val), 0)

KeepAnon(r, anon) == [r EXCEPT !.anon = anon]

load_type(string_table, d, anon, ub) ==
    IF ~CanRead(d, 0, SzBtfType) THEN NotLoaded("Err", anon)
    ELSE
    LET t == [name_off |-> U32(d, 0), info |-> Word(d, 4), type_id |-> U32(d, 8)]
        extra == Drop(d, SzBtfType)
        kind == BtfKindTryFrom(get_kind(t.info))
        MkTypedef(n) == BtfTypedef(n, t.type_id)
        MkFunc(n) == BtfFunc(n, t.type_id)
        MkTypeTag(n) == BtfTypeTag(n, t.type_id)
    IN  CASE kind = "Unknown" -> NotLoaded("Err", anon)
          [] kind = "Void" -> NotLoaded("Err", anon)
          [] kind = "Int" -> KeepAnon(load_int(string_table, t, extra, ub), anon)
          [] kind = "Float" -> KeepAnon(load_float(string_table, t, ub), anon)
          [] kind = "Ptr" -> Loaded(BtfPtr(t.type_id), anon)
          [] kind = "Array" -> KeepAnon(load_array(extra), anon)
          [] kind = "Struct" -> load_struct(string_table, t, extra, anon, ub)
          [] kind = "Union" -> load_union(string_table, t, extra, anon, ub)
          [] kind = "Enum" -> load_enum(string_table, t, extra, anon, ub)
          [] kind = "Enum64" -> load_enum64(string_table, t, extra, anon, ub)
          [] kind = "Fwd" -> KeepAnon(load_fwd(string_table, t, ub), anon)
          [] kind = "Typedef" -> KeepAnon(Named(string_table, t, ub, MkTypedef), anon)
          [] kind = "Volatile" -> Loaded(BtfVolatile(t.type_id), anon)
          [] kind = "Const" -> Loaded(BtfConst(t.type_id), anon)
          [] kind = "Restrict" -> Loaded(BtfRestrict(t.type_id), anon)
          [] kind = "Func" -> KeepAnon(Named(string_table, t, ub, MkFunc), anon)
          [] kind = "FuncProto" -> KeepAnon(load_func_proto(string_table, t, extra, ub), anon)
          [] kind = "Var" -> KeepAnon(load_var(string_table, t, extra, ub), anon)
          [] kind = "Datasec" -> KeepAnon(load_datasec(string_table, t, extra, ub), anon)
          [] kind = "DeclTag" -> KeepAnon(load_decl_tag(string_table, t, extra, ub), anon)
          [] kind = "TypeTag" -> KeepAnon(Named(string_table, t, ub, MkTypeTag), anon)

\* a size that leaves out what follows the common header
type_size_common(t) == IF t.kind = "Void" THEN 0 ELSE SzBtfType

\* size of a decoded type on disk
type_size(t) ==
    LET common == SzBtfType
    IN  CASE t.kind = "Void" -> 0
          [] t.kind \in {"Ptr", "Fwd", "Typedef", "Volatile", "Const", "Restrict",
                         "Func", "Float", "TypeTag"} -> common
          [] t.kind \in {"Int", "Var"} -> common + SzU32
          [] t.kind = "Array" -> common + SzBtfArray
          [] t.kind \in {"Struct", "Union"} -> common + Len(t.members) * SzBtfMember
          [] t.kind = "Enum" -> common + Len(t.values) * SzBtfEnum
          [] t.kind = "Enum64" -> common + Len(t.values) * SzBtfEnum64
          [] t.kind = "FuncProto" -> common + Len(t.params) * SzBtfParam
          [] t.kind = "Datasec" -> common + Len(t.vars) * SzBtfDatasecVar
          [] t.kind = "DeclTag" -> common + SzBtfDeclTag

(***************************************************************************)
(* Btf: lookup                                                             *)
(***************************************************************************)
\* the node of an id is types[id + 1]: sequences start at 1, type ids at 0
type_by_id(ts, type_id) ==
    IF type_id < Len(ts) THEN [tag |-> "Ok", val |-> ts[type_id + 1]]
    ELSE [tag |-> "Err", val |-> Blank]

(***************************************************************************)
(* The input buffers.  A buffer is [header][type table][string table]; the *)
(* type table is a run of records of RecordMenu, possibly cut short, and   *)
(* the header may be faulty.                                               *)
(***************************************************************************)
MaxRecs == 2

LE32(n) == <<n % 256, (n \div 256) % 256, (n \div 65536) % 256, n \div 16777216>>
Rec(name_off, vlen, flag, kind, x, extra) ==
    LE32(name_off) \o <<vlen % 256, vlen \div 256, 0, kind + 128 * flag>> \o LE32(x) \o extra

\* "" at 0, "a" at 1, ".d" at 3, "" at 5
StrTab == <<0, 97, 0, 46, 100, 0>>
NoName == Len(StrTab)

RecordMenu ==
    { Rec(1, 0, 0, 1, 4, <<32, 0, 0, 1>>),                    \* int a: 32 bits, signed
      Rec(1, 0, 0, 1, 1, <<8, 0, 0, 4>>),                     \* bool a: 8 bits
      Rec(1, 0, 0, 1, 1, <<1, 0, 0, 4>>),                     \* bool a: 1 bit
      Rec(1, 0, 0, 1, 1, <<8, 0, 0, 3>>),                     \* int, encoding 3
      Rec(NoName, 0, 0, 1, 4, <<32, 0, 0, 0>>),               \* int, name past the table
      Rec(0, 0, 0, 2, 1, <<>>),                               \* ptr -> 1
      Rec(0, 0, 0, 2, 9, <<>>),                               \* ptr -> 9
      Rec(0, 0, 0, 3, 0, LE32(1) \o LE32(1) \o LE32(2)),      \* array [2] of 1
      Rec(0, 1, 0, 4, 4, LE32(1) \o LE32(1) \o LE32(0)),      \* anon struct { a: 1 @0 }
      Rec(1, 1, 1, 4, 4, LE32(1) \o LE32(1) \o <<5, 0, 0, 3>>), \* struct a { a: 1 : 3 @5 }
      Rec(0, 1, 0, 4, 4, LE32(NoName) \o LE32(1) \o LE32(0)), \* member name past the table
      Rec(1, 2, 0, 4, 4, LE32(1) \o LE32(1) \o LE32(0)),      \* struct a: vlen 2, one member
      Rec(0, 0, 0, 5, 0, <<>>),                               \* anon union {}
      Rec(0, 1, 0, 6, 4, LE32(1) \o <<255, 255, 255, 255>>),  \* anon enum { a = -1 }
      Rec(1, 1, 1, 19, 8, LE32(1) \o LE32(1) \o LE32(0)),     \* enum64 a { a = 1 }
      Rec(1, 0, 0, 7, 0, <<>>),                               \* fwd a
      Rec(1, 0, 0, 8, 2, <<>>),                               \* typedef a -> 2
      Rec(0, 0, 0, 10, 1, <<>>),                              \* const -> 1
      Rec(1, 0, 0, 12, 1, <<>>),                              \* func a -> 1
      Rec(0, 1, 0, 13, 0, LE32(1) \o LE32(1)),                \* func_proto (a: 1) -> 0
      Rec(1, 0, 0, 14, 1, LE32(1)),                           \* var a: 1, global
      Rec(1, 0, 0, 14, 1, LE32(5)),                           \* var, linkage 5
      Rec(3, 1, 0, 15, 4, LE32(1) \o LE32(0) \o LE32(4)),     \* datasec .d { 1 @0 +4 }
      Rec(1, 0, 0, 16, 4, <<>>),                              \* float a: 4 bytes
      Rec(1, 0, 0, 17, 1, <<255, 255, 255, 255>>),            \* decl_tag a -> 1
      Rec(1, 0, 0, 18, 1, <<>>),                              \* type_tag a -> 1
      Rec(0, 0, 0, 20, 0, <<>>),                              \* kind 20: no kind
      Rec(0, 0, 0, 0, 0, <<>>) }                              \* kind 0: void

\* records that decode, with and without a name: three of them make a table
AnonMenu ==
    { Rec(0, 1, 0, 4, 4, LE32(1) \o LE32(1) \o LE32(0)),      \* anon struct { a: 1 @0 }
      Rec(1, 1, 0, 4, 4, LE32(1) \o LE32(1) \o LE32(0)),      \* struct a { a: 1 @0 }
      Rec(0, 0, 0, 5, 0, <<>>),                               \* anon union {}
      Rec(0, 1, 0, 6, 4, LE32(1) \o <<255, 255, 255, 255>>),  \* anon enum { a = -1 }
      Rec(0, 1, 0, 19, 8, LE32(1) \o LE32(1) \o LE32(0)),     \* anon enum64 { a = 1 }
      Rec(0, 0, 0, 2, 1, <<>>) }                              \* ptr -> 1
AnonTables == {a \o b \o c : a \in AnonMenu, b \in AnonMenu, c \in AnonMenu}

RECURSIVE Tables(_)
Tables(n) == IF n = 0 THEN {<<>>}
             ELSE Tables(n - 1) \cup {tb \o r : tb \in Tables(n - 1), r \in RecordMenu}

Cuts == {0, 4}
HeaderFaults == {"magic", "version", "str_oob", "type_oob", "short", "str_cut"}

\* 0xEB9F and 1
BTF_MAGIC == 60319
BTF_VERSION == 1

Header(magic, version, type_len, str_off, str_len) ==
    <<magic % 256, magic \div 256, version, 0>> \o LE32(SzBtfHeader) \o LE32(0)
        \o LE32(type_len) \o LE32(str_off) \o LE32(str_len)

Buffer(tb, fault) ==
    LET n == Len(tb)
        m == Len(StrTab)
        body == tb \o StrTab
    IN  CASE fault = "none" -> Header(BTF_MAGIC, BTF_VERSION, n, n, m) \o body
          [] fault = "magic" -> Header(BTF_MAGIC - 1, BTF_VERSION, n, n, m) \o body
          [] fault = "version" -> Header(BTF_MAGIC, BTF_VERSION + 1, n, n, m) \o body
          [] fault = "str_oob" -> Header(BTF_MAGIC, BTF_VERSION, n, n, m + 1) \o body
          [] fault = "type_oob" -> Header(BTF_MAGIC, BTF_VERSION, n + m + 1, n, m) \o body
          [] fault = "short" -> SubSeq(Header(BTF_MAGIC, BTF_VERSION, n, n, m), 1, SzBtfHeader - 1)
          [] fault = "str_cut" -> Header(BTF_MAGIC, BTF_VERSION, n, n, m - 1) \o body

Buffers ==
    {Buffer(SubSeq(tb, 1, Len(tb) - c), "none") :
        tb \in {x \in Tables(MaxRecs) : x # <<>>}, c \in Cuts}
    \cup {Buffer(tb, f) : tb \in Tables(1), f \in HeaderFaults \cup {"none"}}
    \cup {Buffer(tb, "none") : tb \in AnonTables}

(***************************************************************************)
(* Btf::new from the header on, and BtfLoader::load_now                    *)
(***************************************************************************)
\* no Btf of libbpf-rs
NoRs ==
    /\ rs_pc = "idle" /\ rs_op = "none" /\ rs_name = <<>> /\ rs_ret = "none"
    /\ rs_libbpf = [open |-> "null", btf |-> "null", prog |-> FALSE]
    /\ drop_policy = "none"
    /\ rs_btfs = 0 /\ rs_frees = 0 /\ rs_objs = 0 /\ rs_closes = 0

NoQuery ==
    /\ qop = "none" /\ qarg = 0 /\ qret = Fail("None") /\ cur = 0 /\ tick = 0 /\ qerrs = 0
    /\ returned = {}
    /\ dependent_types = <<>> /\ processed = {} /\ def = <<>> /\ gpc = "idle"

InitDecode ==
    /\ data \in Buffers
    /\ dpc = "hdr"
    /\ str_data = <<>>
    /\ type_data = <<>>
    /\ off = 0
    /\ ltypes = <<>>
    /\ anon_count = 0
    /\ dres = "run"
    /\ built = FALSE
    /\ types = <<>>
    /\ ptr_size = 8
    /\ checked = FALSE
    /\ NoQuery
    /\ NoRs

\* `?`, ensure! and bail! return the error; every local is dropped
ReturnFrom(res) ==
    /\ dpc' = "done"
    /\ dres' = res
    /\ ltypes' = <<>>
    /\ UNCHANGED <<data, str_data, type_data, off, anon_count, btfVars, qryVars, genVars, rsVars>>

\* Btf::new, "Read section header" to the call of BtfLoader::load
BtfNewHeader ==
    /\ dpc = "hdr"
    /\ IF ~CanRead(data, 0, SzBtfHeader) THEN ReturnFrom("err")
       ELSE LET hdr == [magic |-> U16(data, 0), version |-> U8(data, 2),
                        hdr_len |-> U32(data, 4), type_off |-> U32(data, 8),
                        type_len |-> U32(data, 12), str_off |-> U32(data, 16),
                        str_len |-> U32(data, 20)]
                s_off == hdr.hdr_len + hdr.str_off
                s_end == s_off + hdr.str_len
                t_off == hdr.hdr_len + hdr.type_off
                t_end == t_off + hdr.type_len
            IN  IF hdr.magic # BTF_MAGIC THEN ReturnFrom("err")
                ELSE IF hdr.version # BTF_VERSION THEN ReturnFrom("err")
                ELSE IF s_end > Len(data) THEN ReturnFrom("err")
                ELSE IF t_end > Len(data) THEN ReturnFrom("err")
                ELSE /\ str_data' = SubSeq(data, s_off + 1, s_end)
                     /\ type_data' = SubSeq(data, t_off + 1, t_end)
                     /\ dpc' = "load"
                     /\ off' = 0
                     /\ ltypes' = <<BtfVoid>>
                     /\ anon_count' = 0
                     /\ UNCHANGED <<data, dres, btfVars, qryVars, genVars, rsVars>>

\* one iteration of the loop of load_now
LoadNowStep(ub) ==
    /\ dpc = "load"
    /\ off < Len(type_data)
    /\ LET r == load_type(str_data, Drop(type_data, off), anon_count, ub)
       IN  IF r.tag = "Ok"
           THEN /\ off' = off + type_size(r.val)
                /\ ltypes' = Append(ltypes, r.val)
                /\ anon_count' = r.anon
                /\ UNCHANGED <<data, dpc, str_data, type_data, dres, btfVars, qryVars, genVars, rsVars>>
           ELSE ReturnFrom(IF r.tag = "Err" THEN "err" ELSE "panic")

\* the loop ends: load returns the vector and Btf::new the Btf
LoadNowDone ==
    /\ dpc = "load"
    /\ off >= Len(type_data)
    /\ dpc' = "done"
    /\ dres' = "ok"
    /\ built' = TRUE
    /\ types' = ltypes
    /\ UNCHANGED <<data, str_data, type_data, off, ltypes, anon_count, ptr_size, checked,
                   qryVars, genVars, rsVars>>

\* a lookup on the Btf that was returned
TypeById(id) ==
    /\ built
    /\ qop' = "type_by_id"
    /\ qarg' = id
    /\ qret' = [tag |-> type_by_id(types, id).tag, val |-> 0]
    /\ UNCHANGED <<rsVars, decVars, btfVars, cur, tick, qerrs, returned, genVars>>

MaxId == 9

NextDecode ==
    \/ BtfNewHeader
    \/ \E ub \in UBOutcomes : LoadNowStep(ub)
    \/ LoadNowDone
    \/ \E id \in 0..MaxId : TypeById(id)

SpecDecode == InitDecode /\ [][NextDecode]_vars

(***************************************************************************)
(* Btf: the layout resolver.  `self` is [types, ptr_size, checked]: the    *)
(* Btf and the build.  A loop over type ids that makes more iterations     *)
(* than there are types is on a cycle and never ends ("Hang", val an id of *)
(* the cycle); a recursion deeper than there are types never ends          *)
(* ("Overflow").  Both are decided with the count of types as fuel.        *)
(***************************************************************************)
Self == [types |-> types, ptr_size |-> ptr_size, checked |-> checked]

TypeOf(self, id) == self.types[id + 1]

\* one iteration of the loop of skip_mods_and_typedefs: "Next" goes on with val
skip_iter(self, type_id) ==
    LET r == type_by_id(self.types, type_id)
    IN  IF r.tag # "Ok" THEN Fail("Err")
        ELSE IF r.val.kind \in {"Volatile", "Const", "Restrict", "Typedef", "TypeTag"}
             THEN [tag |-> "Next", val |-> r.val.type_id]
             ELSE Ok(type_id)

RECURSIVE SkipLoop(_, _, _)
SkipLoop(self, type_id, fuel) ==
    The({IF s.tag # "Next" THEN s
         ELSE IF fuel = 0 THEN [tag |-> "Hang", val |-> type_id]
         ELSE SkipLoop(self, s.val, fuel - 1) : s \in {skip_iter(self, type_id)}})

skip_mods_and_typedefs(self, type_id) == SkipLoop(self, type_id, Len(self.types))

\* ((t.bits + 7) / 8) in u8 arithmetic
IntBytes(self, bits) ==
    IF bits + 7 > 255
    THEN IF self.checked THEN Fail("Panic") ELSE Ok(((bits + 7) % 256) \div 8)
    ELSE Ok((bits + 7) \div 8)

RECURSIVE SizeOfRec(_, _, _)
\* the match of size_of on the type t
SizeOfType(self, t, fuel) ==
    CASE t.kind = "Int" -> IntBytes(self, t.bits)
      [] t.kind = "Ptr" -> Ok(self.ptr_size)
      [] t.kind = "Array" ->
           IF fuel = 0 THEN Fail("Overflow")
           ELSE The({IF e.tag # "Ok" THEN e ELSE Ok(t.nelems * e.val) :
                       e \in {SizeOfRec(self, t.type_id, fuel - 1)}})
      [] t.kind \in {"Struct", "Union", "Enum", "Enum64", "Datasec", "Float"} -> Ok(t.size)
      [] t.kind = "Var" ->
           IF fuel = 0 THEN Fail("Overflow") ELSE SizeOfRec(self, t.type_id, fuel - 1)
      [] OTHER -> Fail("Err")

SizeOfRec(self, type_id, fuel) ==
    The({IF sk.tag # "Ok" THEN sk ELSE SizeOfType(self, TypeOf(self, sk.val), fuel) :
           sk \in {skip_mods_and_typedefs(self, type_id)}})

\* a size_of that adds up the members of a struct instead of taking its size
size_of_summing(self, type_id) ==
    LET sk == skip_mods_and_typedefs(self, type_id)
        r == SizeOfRec(self, type_id, Len(self.types))
    IN  IF sk.tag = "Ok" /\ TypeOf(self, sk.val).kind = "Struct"
        THEN LET m == TypeOf(self, sk.val).members
                 ends == {(m[i].bit_offset \div 8) + 1 : i \in 1..Len(m)}
             IN  Ok(SetMax({0} \cup ends))
        ELSE r

size_of(self, type_id) == SizeOfRec(self, type_id, Len(self.types))

\* the loop over the members in align_of; as holds for each member i the result r of
\* align_of: the first that is no number is returned, else the largest, at least 1
AlignOfMembers(as) ==
    IF \E a \in as : a.r.tag # "Ok"
    THEN (CHOOSE a \in as : a.r.tag # "Ok" /\ \A b \in as : b.r.tag # "Ok" => a.i <= b.i).r
    ELSE Ok(SetMax({1} \cup {a.r.val : a \in as}))

RECURSIVE AlignOfRec(_, _, _)
\* the match of align_of on the type t
AlignOfType(self, t, fuel) ==
    CASE t.kind = "Int" ->
           The({IF b.tag # "Ok" THEN b ELSE Ok(Min(self.ptr_size, b.val)) :
                  b \in {IntBytes(self, t.bits)}})
      [] t.kind = "Ptr" -> Ok(self.ptr_size)
      [] t.kind \in {"Array", "Var"} ->
           IF fuel = 0 THEN Fail("Overflow") ELSE AlignOfRec(self, t.type_id, fuel - 1)
      [] t.kind \in {"Struct", "Union"} ->
           IF t.members = <<>> THEN Ok(1)
           ELSE IF fuel = 0 THEN Fail("Overflow")
           ELSE The({AlignOfMembers(as) :
                       as \in {{[i |-> i, r |-> AlignOfRec(self, t.members[i].type_id, fuel - 1)] :
                                  i \in 1..Len(t.members)}}})
      [] t.kind \in {"Enum", "Enum64", "Float"} -> Ok(Min(self.ptr_size, t.size))
      [] t.kind = "Datasec" -> Ok(t.size)
      [] OTHER -> Fail("Err")

AlignOfRec(self, type_id, fuel) ==
    The({IF sk.tag # "Ok" THEN sk ELSE AlignOfType(self, TypeOf(self, sk.val), fuel) :
           sk \in {skip_mods_and_typedefs(self, type_id)}})

\* an align_of that does not cap an integer's alignment at the pointer size
align_of_uncapped(self, type_id) ==
    LET sk == skip_mods_and_typedefs(self, type_id)
        r == AlignOfRec(self, type_id, Len(self.types))
    IN  IF sk.tag = "Ok" /\ TypeOf(self, sk.val).kind = "Int"
        THEN IntBytes(self, TypeOf(self, sk.val).bits)
        ELSE r

align_of(self, type_id) == AlignOfRec(self, type_id, Len(self.types))

\* PackedAt without the exemption of bit fields
PackedAtBitfields(m, a) ==
    IF a.tag # "Ok" THEN a
    ELSE IF a.val = 0 THEN Fail("Err")
    ELSE IF m.bit_offset % (a.val * 8) # 0 THEN Ok(TRUE)
    ELSE [tag |-> "Next", val |-> 0]

\* what a member m whose type has the alignment a makes of the loop of
\* is_struct_packed: leave it with a result, or go on ("Next")
PackedAt(m, a) ==
    IF a.tag # "Ok" THEN a
    ELSE IF a.val = 0 THEN Fail("Err")
    ELSE IF m.bit_size = 0 /\ m.bit_offset % (a.val * 8) # 0 THEN Ok(TRUE)
    ELSE [tag |-> "Next", val |-> 0]

\* the loop over the members in is_struct_packed; outs holds for each member i what it
\* makes of the loop: the first to leave the loop decides, else the struct is not packed
PackedMembers(outs) ==
    IF \A o \in outs : o.r.tag = "Next" THEN Ok(FALSE)
    ELSE (CHOOSE o \in outs : o.r.tag # "Next" /\ \A b \in outs : b.r.tag # "Next" => o.i <= b.i).r

\* is_struct_packed from the alignment of the struct on
PackedWith(self, t, align) ==
    IF align.tag # "Ok" THEN align
    ELSE IF align.val = 0 THEN Fail("Err")
    ELSE IF t.size % align.val # 0 THEN Ok(TRUE)
    ELSE The({PackedMembers(outs) :
                outs \in {{[i |-> i,
                            r |-> The({PackedAt(t.members[i], a) :
                                         a \in {align_of(self, t.members[i].type_id)}})] :
                             i \in 1..Len(t.members)}}})

\* is_struct_packed(struct_type_id, t); val is the boolean
is_struct_packed(self, struct_type_id, t) ==
    IF t.kind # "Struct" THEN Ok(FALSE)
    ELSE The({PackedWith(self, t, align) : align \in {align_of(self, struct_type_id)}})

(***************************************************************************)
(* The type graphs the queries run on.  load_now checks no reference, so   *)
(* every sequence of decodable nodes behind Void is a graph it returns.    *)
(* A graph here is <<Void, u8, u32, u64, X, Y>>: three integers and two    *)
(* nodes X (id 4) and Y (id 5) that may refer to any id from 0 to 6; id 6  *)
(* is past the table.                                                      *)
(***************************************************************************)
Nm(c) == <<c>>
U8Type == BtfInt(<<117, 56>>, 8, 0, "None")
U32Type == BtfInt(<<117, 51, 50>>, 32, 0, "Signed")
U64Type == BtfInt(<<117, 54, 52>>, 64, 0, "None")
\* every graph begins with these; the two nodes after them vary
Prims == <<BtfVoid, U8Type, U32Type, U64Type>>
IdX == Len(Prims)
IdY == IdX + 1
IdPast == IdY + 1
\* in the graphs that have more than two nodes behind the integers
IdZ == IdPast
IdW == IdZ + 1

Mem(c, t, byte_off) == BtfMember(Nm(c), t, 0, byte_off * 8)

\* the nodes that are no struct and no union
PlainNodes ==
    {BtfTypedef(Nm(116), r) : r \in {2, IdX, IdY, IdPast}}
    \cup {BtfConst(r) : r \in {IdX, IdY}}
    \cup {BtfVolatile(IdY), BtfRestrict(2), BtfTypeTag(Nm(103), IdY)}
    \cup {BtfPtr(r) : r \in {0, IdX, IdY}}
    \cup {BtfArray(2, 1, r) : r \in {2, IdX, IdY}}
    \cup {BtfArray(33, 1, 1)}
    \cup {BtfVar(Nm(118), r, "GlobalAlloc") : r \in {2, 3, IdX, IdY}}
    \cup {BtfVar(Nm(119), 2, "Static")}
    \cup {BtfFunc(Nm(102), 0), BtfFuncProto(0, <<>>), BtfFwd(Nm(119), "Struct"),
          BtfDeclTag(Nm(100), IdY, -1), BtfFloat(Nm(102), 4),
          BtfEnum(Nm(101), 4, <<BtfEnumValue(Nm(97), -1)>>), BtfEnum(Nm(101), 0, <<>>),
          BtfEnum64(Nm(101), 8, FALSE, <<BtfEnumValue(Nm(97), <<LE32(1), LE32(0)>>)>>),
          BtfDatasec(<<46, 100>>, 8, <<BtfDatasecVar(IdY, 0, 4)>>),
          BtfDatasec(<<46, 101>>, 16, <<BtfDatasecVar(IdY, 0, 4), BtfDatasecVar(IdY, 8, 8)>>),
          BtfDatasec(<<46, 102>>, 8, <<BtfDatasecVar(IdX, 4, 4)>>),
          BtfInt(Nm(105), 255, 0, "None"), BtfInt(Nm(98), 8, 0, "Bool")}

\* small structs and a union, to be nested in Y
InnerNodes ==
    {BtfStruct(Nm(112), 5, <<Mem(120, 2, 0), Mem(121, 1, 4)>>),      \* { u32 @0, u8 @4 }: 5
     BtfStruct(Nm(113), 8, <<Mem(120, 2, 0), Mem(121, 1, 4)>>),      \* { u32 @0, u8 @4 }: 8
     BtfStruct(Nm(114), 2, <<Mem(120, 1, 0), Mem(121, 1, 1)>>),      \* { u8 @0, u8 @1 }: 2
     BtfStruct(Nm(115), 5, <<Mem(120, 1, 0), Mem(121, 1, 1), Mem(122, 2, 1)>>),
     BtfStruct(Nm(111), 4, <<BtfMember(Nm(120), 2, 3, 5)>>),         \* a bit field
     BtfStruct(Nm(110), 0, <<>>),
     BtfUnion(Nm(117), 4, <<Mem(120, 2, 0), Mem(121, 1, 0)>>),
     BtfUnion(Nm(109), 0, <<>>)}

FirstMembers == {Mem(97, t, 0) : t \in {1, 2, IdX}}
NextMembers == {Mem(98, t, o) : t \in {1, 2, 3, IdX, IdY}, o \in {1, 4, 8}}
               \cup {Mem(98, IdPast, 4), BtfMember(Nm(98), 1, 3, 35),
                     BtfMember(Nm(98), 2, 0, 33)}
OuterSizes == {5, 8, 16}

OuterNodes ==
    {BtfStruct(Nm(83), sz, <<a>>) : a \in FirstMembers, sz \in OuterSizes}
    \cup {BtfStruct(Nm(83), sz, <<a, b>>) :
            a \in FirstMembers, b \in NextMembers, sz \in OuterSizes}
    \cup {BtfUnion(Nm(85), 8, <<a, b>>) : a \in FirstMembers, b \in {Mem(98, t, 0) : t \in {2, 3, IdY}}}
    \cup {BtfStruct(Nm(83), 8, <<Mem(97, IdY, 0)>>), BtfStruct(Nm(83), 8, <<Mem(97, 3, 8), Mem(98, 2, 0)>>)}

XNodes == PlainNodes \cup InnerNodes
YNodes == PlainNodes \cup InnerNodes \cup OuterNodes

\* graphs with a third node Z (id 6), and some with a fourth W (id 7).  A struct Y
\* whose member points back to Y, the pointer or its pointee behind a modifier:
SelfPtrGraphs ==
    {Prims \o <<p[1], BtfStruct(Nm(83), 8, <<Mem(97, IdX, 0)>>), p[2]>> :
        p \in {<<BtfTypedef(Nm(116), IdZ), BtfPtr(IdY)>>, <<BtfConst(IdZ), BtfPtr(IdY)>>,
               <<BtfPtr(IdZ), BtfTypedef(Nm(116), IdY)>>, <<BtfPtr(IdZ), BtfVolatile(IdY)>>}}

\* a struct Y { a: Z @0, b: X @8 } over nodes that are declared themselves, or lead
\* to such a node, or are leaves
TreeX ==
    {BtfStruct(Nm(113), 8, <<Mem(120, 2, 0), Mem(121, 1, 4)>>),
     BtfStruct(Nm(88), 8, <<Mem(120, IdW, 0)>>),
     BtfEnum(Nm(101), 4, <<BtfEnumValue(Nm(97), -1)>>),
     BtfPtr(IdZ), BtfPtr(IdW), BtfArray(2, 1, IdW)}
TreeZ ==
    {BtfStruct(Nm(114), 8, <<Mem(120, 2, 0), Mem(121, 1, 4)>>),
     BtfStruct(Nm(90), 8, <<Mem(120, IdW, 0)>>),
     BtfStruct(Nm(90), 8, <<Mem(120, IdX, 0)>>),
     BtfUnion(Nm(117), 4, <<Mem(120, 2, 0), Mem(121, 1, 0)>>)}
TreeW ==
    {BtfEnum(Nm(102), 4, <<BtfEnumValue(Nm(97), 1)>>),
     BtfStruct(Nm(119), 2, <<Mem(120, 1, 0), Mem(121, 1, 1)>>),
     BtfDeclTag(Nm(100), IdZ, -1), BtfTypedef(Nm(116), IdZ), U32Type}
TreeGraphs ==
    {Prims \o <<x, BtfStruct(Nm(83), 16, <<Mem(97, IdZ, 0), Mem(98, IdX, 8)>>), z, w>> :
        x \in TreeX, z \in TreeZ, w \in TreeW}

\* a section Y of one variable X whose type is the struct Z
SectionGraphs ==
    {Prims \o <<BtfVar(Nm(118), IdZ, l), BtfDatasec(<<46, 100>>, 8, <<BtfDatasecVar(IdX, 0, 8)>>),
                BtfStruct(Nm(113), 8, <<Mem(120, 2, 0), Mem(121, 1, 4)>>)>> :
        l \in {"Static", "GlobalAlloc", "GlobalExtern"}}

\* structs and a union Y with a member X that is an array of 32 or 33 bytes, a typedef
\* of such an array Z, or an array of two of them
ArrayX == {BtfArray(32, 1, 1), BtfArray(33, 1, 1), BtfTypedef(Nm(116), IdZ), BtfArray(2, 1, IdZ)}
ArrayY ==
    {BtfStruct(Nm(83), sz, <<Mem(97, IdX, 0)>>) : sz \in {32, 33, 66}}
    \cup {BtfStruct(Nm(83), 34, <<Mem(97, IdX, 0), Mem(98, 1, 33)>>),
          BtfStruct(Nm(83), 34, <<Mem(97, 1, 0), Mem(98, IdX, 1)>>),
          BtfUnion(Nm(85), 33, <<Mem(97, IdX, 0)>>)}
ArrayGraphs ==
    {Prims \o <<x, y, z>> : x \in ArrayX, y \in ArrayY, z \in {BtfArray(32, 1, 1), BtfArray(33, 1, 1)}}

\* enums of every size that has a representation and of some that have none, with no,
\* one and two enumerators; Y is the enum, X a struct with a member of it
EnumValues ==
    {<<>>, <<BtfEnumValue(Nm(97), 1)>>, <<BtfEnumValue(Nm(97), 0), BtfEnumValue(Nm(98), 2)>>,
     <<BtfEnumValue(Nm(97), 1), BtfEnumValue(Nm(98), -1)>>}
Enum64Values ==
    {<<>>, <<BtfEnumValue(Nm(97), <<1, 0>>)>>,
     <<BtfEnumValue(Nm(97), <<0, 0>>), BtfEnumValue(Nm(98), <<2, 1>>)>>}
EnumY ==
    {BtfEnum(Nm(101), sz, vs) : sz \in {0, 1, 2, 3, 4, 8, 16, 32}, vs \in EnumValues}
    \cup {BtfEnum64(Nm(101), sz, sg, vs) : sz \in {1, 2, 3, 4, 8, 16}, sg \in BOOLEAN, vs \in Enum64Values}
EnumGraphs == {Prims \o <<BtfStruct(Nm(83), 16, <<Mem(97, IdY, 0)>>), y>> : y \in EnumY}

\* a section Y of the two slots X and Z: X is a variable of the type Z or of u32, Z a
\* second variable or no variable at all
SlotGraphs ==
    {Prims \o <<BtfVar(Nm(118), r, l),
                BtfDatasec(<<46, 100>>, 8, <<BtfDatasecVar(IdX, 0, 4), BtfDatasecVar(IdZ, 4, 4)>>),
                z>> :
        r \in {2, IdZ}, l \in {"Static", "GlobalAlloc"},
        z \in {BtfVar(Nm(119), 2, "Static"), BtfVar(Nm(119), 2, "GlobalAlloc"),
               U32Type, BtfTypedef(Nm(116), IdZ), BtfInt(Nm(105), 255, 0, "None")}}

\* a struct Y with the array X of 33 bytes as its last, its first or its middle member,
\* or behind a member without a name; the member Z is an integer, a struct, a pointer, a
\* function or an array of the function W
DefaultZ ==
    {U32Type, BtfStruct(Nm(90), 4, <<Mem(97, 2, 0)>>), BtfPtr(IdW), BtfFunc(Nm(102), 0),
     BtfArray(1, 1, IdW)}
DefaultY ==
    {BtfStruct(Nm(83), 48, <<Mem(97, 1, 0), Mem(98, IdZ, 8), Mem(99, IdX, 12)>>),
     BtfStruct(Nm(83), 44, <<Mem(99, IdX, 0), Mem(98, IdZ, 36), Mem(97, 1, 40)>>),
     BtfStruct(Nm(83), 44, <<Mem(97, 1, 0), Mem(99, IdX, 1), Mem(98, IdZ, 36)>>),
     BtfStruct(Nm(83), 44, <<BtfMember(<<>>, IdZ, 0, 0), Mem(99, IdX, 4)>>)}
DefaultGraphs ==
    {Prims \o <<BtfArray(33, 1, 1), y, z, BtfFunc(Nm(102), 0)>> : y \in DefaultY, z \in DefaultZ}

\* a struct Y with a member X that is an Int with the encoding Bool, of 8 bits and of
\* other widths that load_int takes from the record
BoolGraphs ==
    {Prims \o <<BtfInt(Nm(98), bits, 0, "Bool"), BtfStruct(Nm(83), 4, <<Mem(97, IdX, 0)>>)>> :
        bits \in {0, 1, 8, 9, 16, 32}}

Graphs ==
    {Prims \o <<x, y>> : x \in XNodes, y \in YNodes}
    \cup SelfPtrGraphs \cup TreeGraphs \cup SectionGraphs \cup ArrayGraphs \cup EnumGraphs
    \cup SlotGraphs \cup DefaultGraphs \cup BoolGraphs

HasWideInt(ts) == \E i \in 1..Len(ts) : ts[i].kind = "Int" /\ ts[i].bits + 7 > 255

NoDecode ==
    /\ data = <<>> /\ dpc = "done" /\ str_data = <<>> /\ type_data = <<>>
    /\ off = 0 /\ ltypes = <<>> /\ anon_count = 0 /\ dres = "ok"

\* a Btf as Btf::new returns it
InitBtf ==
    /\ NoDecode
    /\ built = TRUE
    /\ types \in Graphs
    /\ ptr_size \in {4, 8}
    /\ checked \in (IF HasWideInt(types) THEN BOOLEAN ELSE {FALSE})
    /\ NoQuery
    /\ NoRs

\* the queries take &self: the caller of one that returned an error still has the Btf
\* and may ask again; the model follows it through MaxFailed failed queries
MaxFailed == 1

\* no query was made yet, or size_of or align_of returned an error to the caller
Ready ==
    \/ qop = "none"
    \/ qop \in {"size_of", "align_of"} /\ qret.tag = "Err" /\ qerrs < MaxFailed

\* a Btf on which a failed query leaves its error behind
QuerySticky(op, id, ret) ==
    /\ qop' = op
    /\ qarg' = id
    /\ qret' = IF qop = "none" THEN ret ELSE qret
    /\ qerrs' = IF qop = "none" THEN qerrs ELSE qerrs + 1
    /\ UNCHANGED <<rsVars, decVars, btfVars, cur, tick, returned, genVars>>

Query(op, id, ret) ==
    /\ qop' = op
    /\ qarg' = id
    /\ qret' = ret
    /\ qerrs' = IF qop = "none" THEN qerrs ELSE qerrs + 1
    /\ UNCHANGED <<rsVars, decVars, btfVars, cur, tick, returned, genVars>>

SizeOf(id) == built /\ Ready /\ Query("size_of", id, size_of(Self, id))

AlignOf(id) == built /\ Ready /\ Query("align_of", id, align_of(Self, id))

\* type_definition calls it with the id of a Struct or Union and its node
IsStructPacked(id) ==
    /\ built /\ qop = "none"
    /\ id < Len(types)
    /\ types[id + 1].kind \in {"Struct", "Union"}
    /\ Query("is_struct_packed", id, is_struct_packed(Self, id, types[id + 1]))

NextLayout ==
    \/ \E id \in 0..IdPast : SizeOf(id)
    \/ \E id \in 0..IdPast : AlignOf(id)
    \/ \E id \in 0..IdPast : IsStructPacked(id)

SpecLayout == InitBtf /\ [][NextLayout]_vars

(***************************************************************************)
(* Claims on the layout resolver                                           *)
(***************************************************************************)
Wrappers == {"Volatile", "Const", "Restrict", "Typedef", "TypeTag"}
Sized == {"Struct", "Union", "Enum", "Enum64", "Datasec"}

\* the ids a chain of wrappers starting at id leads through, id included
RECURSIVE WrapChainFrom(_, _, _)
WrapChainFrom(ts, S, n) ==
    LET more == S \cup {ts[i + 1].type_id : i \in {j \in S : j < Len(ts) /\ ts[j + 1].kind \in Wrappers}}
    IN  IF n = 0 \/ more = S THEN S ELSE WrapChainFrom(ts, more, n - 1)
WrapChain(ts, id) == WrapChainFrom(ts, {id}, Len(ts))

\* C7: for a Struct, Union, Enum, Enum64 or Datasec, asked for directly or through
\* any chain of Volatile/Const/Restrict/Typedef/TypeTag, size_of is the stored size
C7_SizeOfIsStoredSize ==
    qop = "size_of" =>
        \A t \in WrapChain(types, qarg) :
            (t < Len(types) /\ types[t + 1].kind \in Sized) => qret = Ok(types[t + 1].size)

\* a struct of two members whose stored size is not what the members add up to, asked
\* for through a wrapper
C7_Witness ==
    /\ qop = "size_of"
    /\ qarg < Len(types) /\ types[qarg + 1].kind \in Wrappers
    /\ \E t \in WrapChain(types, qarg) :
          /\ t < Len(types) /\ t # qarg
          /\ types[t + 1].kind = "Struct" /\ Len(types[t + 1].members) = 2
          /\ types[t + 1].size = 16
          /\ qret = Ok(16)

\* what the claim says is_struct_packed returns; A is the alignment of a type id
PackedAsSpecified(self, t, A(_)) ==
    /\ t.kind = "Struct"
    /\ \/ t.size % A(qarg) # 0
       \/ \E i \in 1..Len(t.members) :
             /\ t.members[i].bit_size = 0
             /\ A(t.members[i].type_id) # 0
             /\ t.members[i].bit_offset % (A(t.members[i].type_id) * 8) # 0

ExampleNotPacked == BtfStruct(Nm(114), 2, <<Mem(120, 1, 0), Mem(121, 1, 1)>>)
ExamplePacked == BtfStruct(Nm(115), 5, <<Mem(120, 1, 0), Mem(121, 1, 1), Mem(122, 2, 1)>>)

\* C9: is_struct_packed is false for a Union; for a Struct it is true exactly when the
\* size is no multiple of the struct's alignment or a member without bit size lies at
\* a bit offset that is no multiple of 8 times its alignment; it returns no boolean
\* only when an alignment cannot be computed or is 0
C9_IsStructPacked ==
    qop = "is_struct_packed" =>
        LET t == types[qarg + 1]
            A(id) == align_of(Self, id).val
        IN  /\ t.kind = "Union" => qret = Ok(FALSE)
            /\ (t.kind = "Struct" /\ align_of(Self, qarg).tag # "Ok") => qret.tag # "Ok"
            /\ (t.kind = "Struct" /\ align_of(Self, qarg).tag = "Ok") =>
                  IF qret.tag = "Ok" THEN qret.val = PackedAsSpecified(Self, t, A)
                  ELSE \E i \in 1..Len(t.members) : A(t.members[i].type_id) = 0
            /\ t = ExampleNotPacked => qret = Ok(FALSE)
            /\ t = ExamplePacked => qret = Ok(TRUE)

\* the struct of the example, found packed because of its third member, beside a struct
\* whose bit field alone is misaligned and which is not packed
C9_Witness ==
    /\ qop = "is_struct_packed"
    /\ types[qarg + 1] = ExamplePacked
    /\ qret = Ok(TRUE)

C9_WitnessBitfield ==
    /\ qop = "is_struct_packed"
    /\ \E i \in 1..Len(types[qarg + 1].members) :
          types[qarg + 1].members[i].bit_size # 0 /\ types[qarg + 1].members[i].bit_offset % 8 # 0
    /\ qret = Ok(FALSE)

\* what the claim says align_of returns for the type t the unwrap step ends at, of
\* the id sk; Bytes(t) is the size in bytes of the Int t
AlignAsSpecified(sk, t, Bytes(_)) ==
    LET ms == {align_of(Self, t.members[i].type_id) : i \in 1..Len(t.members)}
    IN  CASE t.kind = "Int" -> qret = Ok(Min(ptr_size, Bytes(t)))
          [] t.kind \in {"Enum", "Enum64", "Float"} -> qret = Ok(Min(ptr_size, t.size))
          [] t.kind = "Ptr" -> qret = Ok(ptr_size)
          [] t.kind \in {"Array", "Var"} -> qret = align_of(Self, t.type_id)
          [] t.kind \in {"Struct", "Union"} ->
               IF \A a \in ms : a.tag = "Ok"
               THEN qret = Ok(SetMax({1} \cup {a.val : a \in ms}))
               ELSE qret.tag # "Ok"
          [] t.kind = "Datasec" -> qret = Ok(t.size)
          [] OTHER -> qret.tag = "Err"

\* the bytes that hold the bits of an Int
CeilBytes(t) == (t.bits + 7) \div 8

\* C10: align_of is, for the type the unwrap step ends at: min(pointer size, size in
\* bytes) for Int, Enum, Enum64 and Float; the pointer size for Ptr; the element's
\* alignment for Array; the largest alignment of a member, 1 without members, for
\* Struct and Union; the referenced type's alignment for Var; the stored size for
\* Datasec; an error else
C10_AlignOf ==
    qop = "align_of" =>
        LET sk == skip_mods_and_typedefs(Self, qarg)
        IN  IF sk.tag # "Ok" THEN qret.tag = sk.tag
            ELSE AlignAsSpecified(sk, TypeOf(Self, sk.val), CeilBytes)

\* the same for every type but an Int of more than 248 bits
C10_AlignOfUpTo248Bits ==
    qop = "align_of" =>
        LET sk == skip_mods_and_typedefs(Self, qarg)
        IN  IF sk.tag # "Ok" THEN qret.tag = sk.tag
            ELSE (TypeOf(Self, sk.val).kind = "Int" /\ TypeOf(Self, sk.val).bits > 248)
                 \/ AlignAsSpecified(sk, TypeOf(Self, sk.val), CeilBytes)

\* a struct behind a wrapper whose alignment is that of its 8-byte member, capped at a
\* pointer size of 4
C10_Witness ==
    /\ qop = "align_of"
    /\ ptr_size = 4
    /\ qarg < Len(types) /\ types[qarg + 1].kind = "Typedef"
    /\ skip_mods_and_typedefs(Self, qarg).tag = "Ok"
    /\ TypeOf(Self, skip_mods_and_typedefs(Self, qarg).val).kind = "Struct"
    /\ \E i \in 1..Len(TypeOf(Self, skip_mods_and_typedefs(Self, qarg).val).members) :
          TypeOf(Self, skip_mods_and_typedefs(Self, qarg).val).members[i].type_id = 3
    /\ qret = Ok(4)

\* C11: for an Int of any width from 0 to 255 bits, asked for directly or through
\* wrappers, size_of is the number of bytes that hold the bits, ceil(bits / 8); a
\* 32-bit Int has size 4 and, the pointers being of 4 bytes or more, alignment 4
C11_IntSizeOf ==
    LET sk == skip_mods_and_typedefs(Self, qarg)
    IN  (qop \in {"size_of", "align_of"} /\ sk.tag = "Ok" /\ TypeOf(Self, sk.val).kind = "Int") =>
            /\ qop = "size_of" => qret = Ok(CeilBytes(TypeOf(Self, sk.val)))
            /\ TypeOf(Self, sk.val).bits = 32 => qret = Ok(4)

\* the same for the widths up to 248 bits, whose bytes a u8 holds
C11_IntSizeOfUpTo248Bits ==
    LET sk == skip_mods_and_typedefs(Self, qarg)
    IN  (/\ qop \in {"size_of", "align_of"} /\ sk.tag = "Ok"
         /\ TypeOf(Self, sk.val).kind = "Int" /\ TypeOf(Self, sk.val).bits <= 248) =>
            /\ qop = "size_of" => qret = Ok(CeilBytes(TypeOf(Self, sk.val)))
            /\ TypeOf(Self, sk.val).bits = 32 => qret = Ok(4)

Unsized == {"Void", "Func", "FuncProto", "Fwd", "DeclTag"}

C12_WitnessFunc ==
    /\ qop = "size_of" /\ qarg = IdX /\ qret.tag = "Err"
    /\ types[IdX + 1].kind = "Func"

(***************************************************************************)
(* Claims on the decoder                                                   *)
(***************************************************************************)
\* C1: decoding never panics, whatever the bytes: Btf::new returns a graph or an error
C1_DecodeNeverPanics == dres # "panic"

\* the header is short, has the wrong magic or version, or places a section past the
\* end of the buffer
HeaderFault(d) ==
    \/ Len(d) < SzBtfHeader
    \/ U16(d, 0) # BTF_MAGIC
    \/ U8(d, 2) # BTF_VERSION
    \/ U32(d, 4) + U32(d, 16) + U32(d, 20) > Len(d)
    \/ U32(d, 4) + U32(d, 8) + U32(d, 12) > Len(d)

\* bytes that follow the common header of a record of this kind and vlen
TrailingBytes(kind, vlen) ==
    CASE kind \in {"Int", "Var", "DeclTag"} -> 4
      [] kind = "Array" -> 12
      [] kind \in {"Struct", "Union", "Enum64", "Datasec"} -> 12 * vlen
      [] kind \in {"Enum", "FuncProto"} -> 8 * vlen
      [] OTHER -> 0

\* some record of the type table has an unknown kind tag or is cut short
RECURSIVE RecordFault(_)
RecordFault(td) ==
    IF td = <<>> THEN FALSE
    ELSE IF Len(td) < 12 THEN TRUE
    ELSE LET info == Word(td, 4)
             kind == BtfKindTryFrom(get_kind(info))
             need == 12 + TrailingBytes(kind, get_vlen(info))
         IN  \/ kind = "Unknown"
             \/ Len(td) < need
             \/ RecordFault(Drop(td, need))

TypeSection(d) == SubSeq(d, U32(d, 4) + U32(d, 8) + 1, U32(d, 4) + U32(d, 8) + U32(d, 12))
Faulty(d) == HeaderFault(d) \/ RecordFault(TypeSection(d))

\* C2: decoding is all-or-nothing: a buffer with a wrong magic or version, a section
\* past its end, a record of unknown kind or a record cut short makes the decode
\* return an error, and no graph is exposed unless the decode succeeded
C2_AllOrNothing ==
    /\ (dpc = "done" /\ Faulty(data)) => dres = "err"
    /\ built => dres = "ok"
    /\ ~built => types = <<>>

\* the type ids a node refers to
Refs(t) ==
    CASE t.kind \in {"Ptr", "Typedef", "Volatile", "Const", "Restrict", "Func", "Var",
                     "DeclTag", "TypeTag"} -> {t.type_id}
      [] t.kind = "Array" -> {t.type_id, t.index_type_id}
      [] t.kind \in {"Struct", "Union"} -> {t.members[i].type_id : i \in 1..Len(t.members)}
      [] t.kind = "FuncProto" -> {t.type_id} \cup {t.params[i].type_id : i \in 1..Len(t.params)}
      [] t.kind = "Datasec" -> {t.vars[i].type_id : i \in 1..Len(t.vars)}
      [] OTHER -> {}

\* C6: every type id a decoded node refers to is the id of a decoded node; a buffer
\* with a reference past the table does not decode
C6_ReferencesResolve ==
    built => \A i \in 1..Len(types) : \A r \in Refs(types[i]) : r < Len(types)

(***************************************************************************)
(* The unwrap loop, one iteration at a time: Btf::skip_mods_and_typedefs   *)
(* of libbpf-cargo and BtfType::skip_mods_and_typedefs of libbpf-rs.  cur  *)
(* is the loop variable (type_id, ty), tick the parity of the iterations   *)
(* done, qret.tag = "Running" while the loop has not returned.             *)
(***************************************************************************)
Running == [tag |-> "Running", val |-> 0]

SkipStart(id) ==
    /\ built /\ qop = "none"
    /\ qop' = "skip_mods_and_typedefs"
    /\ qarg' = id
    /\ cur' = id
    /\ qret' = Running
    /\ UNCHANGED <<rsVars, decVars, btfVars, tick, qerrs, returned, genVars>>

SkipIter ==
    /\ qop = "skip_mods_and_typedefs" /\ qret = Running
    /\ LET s == skip_iter(Self, cur)
       IN  IF s.tag = "Next"
           THEN /\ cur' = s.val
                /\ tick' = 1 - tick
                /\ UNCHANGED <<qret, qerrs, returned>>
           ELSE /\ qret' = s
                /\ UNCHANGED <<cur, tick, qerrs, returned>>
    /\ UNCHANGED <<rsVars, decVars, btfVars, qop, qarg, genVars>>

\* BtfType::is_mod() || kind() == Typedef, then next_type().unwrap()
rs_skip_iter(self, ty) ==
    IF TypeOf(self, ty).kind \in {"Volatile", "Const", "Restrict", "TypeTag", "Typedef"}
    THEN IF TypeOf(self, ty).type_id < Len(self.types)
         THEN [tag |-> "Next", val |-> TypeOf(self, ty).type_id]
         ELSE Fail("Panic")
    ELSE Ok(ty)

\* a BtfType is a type of the graph
RsSkipStart(id) ==
    /\ built /\ qop = "none"
    /\ id < Len(types)
    /\ qop' = "BtfType::skip_mods_and_typedefs"
    /\ qarg' = id
    /\ cur' = id
    /\ qret' = Running
    /\ UNCHANGED <<rsVars, decVars, btfVars, tick, qerrs, returned, genVars>>

RsSkipIter ==
    /\ qop = "BtfType::skip_mods_and_typedefs" /\ qret = Running
    /\ LET s == rs_skip_iter(Self, cur)
       IN  IF s.tag = "Next"
           THEN /\ cur' = s.val
                /\ tick' = 1 - tick
                /\ UNCHANGED <<qret, qerrs, returned>>
           ELSE /\ qret' = s
                /\ UNCHANGED <<cur, tick, qerrs, returned>>
    /\ UNCHANGED <<rsVars, decVars, btfVars, qop, qarg, genVars>>

NextSkip ==
    \/ \E id \in 0..IdPast : SkipStart(id)
    \/ SkipIter
    \/ \E id \in 0..IdPast : RsSkipStart(id)
    \/ RsSkipIter

SpecSkip == InitBtf /\ [][NextSkip]_vars
\* a loop that can take an iteration takes it
FairSkip == SpecSkip /\ WF_vars(NextSkip)

\* C4: the unwrap step ends, on every graph, with the id of a type that is no wrapper
\* or with an error
C4_SkipTerminates ==
    (qret = Running) ~> (qret.tag \in {"Ok", "Err"})

(***************************************************************************)
(* The declaration generator.  A Rust type is a record [k, w, of, n,       *)
(* name]: k "i", "u", "f" with the width w in bits, "bool", "c_void",      *)
(* "ptr" (to of[1]), "array" (n times of[1]) or "named" (a declared type). *)
(* The text type_declaration returns is Show of it.  A step that uses a    *)
(* value computed before it gets the value as a parameter, bound by The.   *)
(***************************************************************************)
RType(k, w, of, n, name) == [k |-> k, w |-> w, of |-> of, n |-> n, name |-> name]
CVoid == RType("c_void", 0, <<>>, 0, <<>>)
RNamed(name) == RType("named", 0, <<>>, 0, name)

RECURSIVE Show(_)
Show(ty) ==
    CASE ty.k = "c_void" -> <<115, 116, 100, 58, 58, 102, 102, 105, 58, 58, 99, 95, 118, 111, 105, 100>>
      [] ty.k = "bool" -> <<98, 111, 111, 108>>
      [] ty.k = "i" -> <<105>> \o Decimal(ty.w)
      [] ty.k = "u" -> <<117>> \o Decimal(ty.w)
      [] ty.k = "f" -> <<102>> \o Decimal(ty.w)
      [] ty.k = "ptr" -> <<42, 109, 117, 116, 32>> \o Show(ty.of[1])
      [] ty.k = "array" -> <<91>> \o Show(ty.of[1]) \o <<59, 32>> \o Decimal(ty.n) \o <<93>>
      [] ty.k = "named" -> ty.name

\* the arm BtfType::Int(t) of type_declaration; b is (t.bits + 7) / 8
DeclInt(ty, b) ==
    IF b.tag # "Ok" THEN b
    ELSE IF b.val \notin {1, 2, 4, 8, 16} THEN Fail("Err")
    ELSE CASE ty.encoding = "Signed" -> Ok(RType("i", 8 * b.val, <<>>, 0, <<>>))
           [] ty.encoding = "Bool" ->
                IF ty.bits = 8 THEN Ok(RType("bool", 0, <<>>, 0, <<>>)) ELSE Fail("Panic")
           [] OTHER -> Ok(RType("u", 8 * b.val, <<>>, 0, <<>>))

\* format!("*mut {pointee_ty}"), format!("[{}; {}]", val_ty, t.nelems); r is the
\* declaration of the type referred to
DeclWrap(k, n, r) ==
    IF r.tag # "Ok" \/ k = "same" THEN r ELSE Ok(RType(k, 0, <<r.val>>, n, <<>>))

RECURSIVE TypeDeclRec(_, _, _)
\* the match of type_declaration on the type ty
TypeDeclOf(self, ty, fuel) ==
    CASE ty.kind = "Void" -> Ok(CVoid)
      [] ty.kind = "Int" -> DeclInt(ty, IntBytes(self, ty.bits))
      [] ty.kind = "Float" ->
           IF ty.size \in {4, 8} THEN Ok(RType("f", 8 * ty.size, <<>>, 0, <<>>))
           ELSE Fail("Err")
      [] ty.kind \in {"Ptr", "Array", "Var"} ->
           IF fuel = 0 THEN Fail("Overflow")
           ELSE The({DeclWrap(CASE ty.kind = "Ptr" -> "ptr" [] ty.kind = "Array" -> "array"
                                [] OTHER -> "same",
                              ty.nelems, r) : r \in {TypeDeclRec(self, ty.type_id, fuel - 1)}})
      [] ty.kind \in {"Struct", "Union", "Enum", "Enum64"} -> Ok(RNamed(ty.name))
      [] ty.kind = "Func" -> Ok(CVoid)
      [] OTHER -> Fail("Err")

\* sk is what skip_mods_and_typedefs returned
TypeDeclAt(self, sk, fuel) ==
    IF sk.tag # "Ok" THEN sk ELSE TypeDeclOf(self, TypeOf(self, sk.val), fuel)

TypeDeclRec(self, type_id, fuel) ==
    The({TypeDeclAt(self, sk, fuel) : sk \in {skip_mods_and_typedefs(self, type_id)}})

type_declaration(self, type_id) == TypeDeclRec(self, type_id, Len(self.types))

\* a default-value expression: k "default" (<ty>::default()), "null_mut"
\* (std::ptr::null_mut()), "array" ([of[1]; n]) or "variant" (an enum's value)
RDefault(k, ty, of, n) == [k |-> k, ty |-> ty, of |-> of, n |-> n]
DefaultOf(ty) == RDefault("default", ty, <<>>, 0)

\* format!("{}::default()", self.type_declaration(..)?)
DefaultOfDecl(d) == IF d.tag # "Ok" THEN d ELSE Ok(DefaultOf(d.val))

\* format!("[{}; {}]", self.type_default(t.val_type_id)?, t.nelems)
DefaultArray(r, n) == IF r.tag # "Ok" THEN r ELSE Ok(RDefault("array", CVoid, <<r.val>>, n))

RECURSIVE TypeDefaultRec(_, _, _)
\* the match of type_default on the type ty with the id stripped_type_id
TypeDefaultOf(self, stripped_type_id, ty, fuel) ==
    CASE ty.kind = "Void" -> Ok(DefaultOf(CVoid))
      [] ty.kind \in {"Int", "Float"} ->
           The({DefaultOfDecl(d) : d \in {type_declaration(self, stripped_type_id)}})
      [] ty.kind = "Ptr" -> Ok(RDefault("null_mut", CVoid, <<>>, 0))
      [] ty.kind = "Array" ->
           IF fuel = 0 THEN Fail("Overflow")
           ELSE The({DefaultArray(r, ty.nelems) : r \in {TypeDefaultRec(self, ty.type_id, fuel - 1)}})
      [] ty.kind \in {"Struct", "Union", "Enum", "Enum64"} -> Ok(DefaultOf(RNamed(ty.name)))
      [] ty.kind = "Var" -> The({DefaultOfDecl(d) : d \in {type_declaration(self, ty.type_id)}})
      [] OTHER -> Fail("Err")

TypeDefaultAt(self, sk, fuel) ==
    IF sk.tag # "Ok" THEN sk ELSE TypeDefaultOf(self, sk.val, TypeOf(self, sk.val), fuel)

TypeDefaultRec(self, type_id, fuel) ==
    The({TypeDefaultAt(self, sk, fuel) : sk \in {skip_mods_and_typedefs(self, type_id)}})

type_default(self, type_id) == TypeDefaultRec(self, type_id, Len(self.types))

NextTypeOf(id, r) ==
    IF r.tag # "Ok" THEN Fail("Err")
    ELSE CASE r.val.kind \in {"Struct", "Union", "Enum", "Enum64", "Datasec"} ->
                [tag |-> "Some", val |-> id]
           [] r.val.kind \in {"Ptr", "Array", "Volatile", "Const", "Restrict", "Typedef",
                              "DeclTag", "TypeTag"} -> [tag |-> "Next", val |-> r.val.type_id]
           [] OTHER -> [tag |-> "None", val |-> 0]

\* one iteration of the loop of the closure next_type: "Next" goes on with val
next_type_iter(self, id) == The({NextTypeOf(id, r) : r \in {type_by_id(self.types, id)}})

RECURSIVE NextTypeLoop(_, _, _)
NextTypeFrom(self, id, s, fuel) ==
    IF s.tag # "Next" THEN s
    ELSE IF fuel = 0 THEN [tag |-> "HangNext", val |-> id]
    ELSE NextTypeLoop(self, s.val, fuel - 1)

NextTypeLoop(self, id, fuel) ==
    The({NextTypeFrom(self, id, s, fuel) : s \in {next_type_iter(self, id)}})

next_type(self, id) == NextTypeLoop(self, id, Len(self.types))

IsTerminalOf(r) ==
    IF r.tag # "Ok" THEN Fail("Err")
    ELSE Ok(r.val.kind \notin {"Struct", "Union", "Enum", "Enum64", "Datasec"})

is_terminal(self, id) == IsTerminalOf(type_by_id(self.types, id))

\* an aligned offset that rounds down where the source rounds up
AlignedOffsetDown(current_offset, align) == (current_offset \div align) * align

\* (current_offset + align - 1) / align * align
AlignedOffset(current_offset, align) == ((current_offset + align - 1) \div align) * align

\* a required_padding that returns the required offset where it returns the gap
PaddingFromStart(current_offset, required_offset, a) ==
    IF a.tag # "Ok" THEN a
    ELSE IF a.val = 0 THEN Fail("Err")
    ELSE IF AlignedOffset(current_offset, IF a.val > 4 THEN 4 ELSE a.val) = required_offset
         THEN Ok(0)
         ELSE Ok(required_offset)

\* a required_padding that rounds up to the alignment itself, above 4 too
PaddingUncapped(current_offset, required_offset, a) ==
    IF a.tag # "Ok" THEN a
    ELSE IF a.val = 0 THEN Fail("Err")
    ELSE IF AlignedOffset(current_offset, a.val) = required_offset THEN Ok(0)
    ELSE Ok(required_offset - current_offset)

\* required_padding from the alignment a on: a is 1 or what align_of returned
PaddingFor(current_offset, required_offset, a) ==
    IF a.tag # "Ok" THEN a
    ELSE IF a.val = 0 THEN Fail("Err")
    ELSE IF AlignedOffset(current_offset, IF a.val > 4 THEN 4 ELSE a.val) = required_offset
         THEN Ok(0)
         ELSE Ok(required_offset - current_offset)

required_padding(self, current_offset, required_offset, type_id, packed) ==
    IF current_offset > required_offset THEN Fail("Err")
    ELSE The({PaddingFor(current_offset, required_offset, a) :
                a \in {IF packed THEN Ok(1) ELSE align_of(self, type_id)}})

(***************************************************************************)
(* What type_definition writes.  A declaration is a record: form ("struct",*)
(* "union", "enum"), id (the type it was written for), name, derive, repr, *)
(* fields, values, and the impls: has_impl_default with the initializers   *)
(* impl_default, and impl_debug.  A field is a padding field (pad, named   *)
(* __pad_<at>, len bytes) or a member field of Rust type ty, written for   *)
(* the member type type_id.                                                *)
(***************************************************************************)
U8Ty == RType("u", 8, <<>>, 0, <<>>)
PadName(offset) == <<95, 95, 112, 97, 100, 95>> \o Decimal(offset)
PadField(offset, padding) ==
    [pad |-> TRUE, name |-> PadName(offset), at |-> offset, len |-> padding,
     ty |-> RType("array", 0, <<U8Ty>>, padding, <<>>), type_id |-> 0]
PubField(name, ty, type_id) ==
    [pad |-> FALSE, name |-> name, at |-> 0, len |-> 0, ty |-> ty, type_id |-> type_id]
FieldInit(name, value) == [name |-> name, value |-> value]
PadInit(offset, padding) ==
    FieldInit(PadName(offset), RDefault("array", CVoid, <<DefaultOf(U8Ty)>>, padding))
Decl(form, id, name, derive, repr, fields, values, has_impl, inits, dbg) ==
    [form |-> form, id |-> id, name |-> name, derive |-> derive, repr |-> repr,
     fields |-> fields, values |-> values, has_impl_default |-> has_impl,
     impl_default |-> inits, impl_debug |-> dbg]

\* a handler's result: the declaration and the types it pushed on the worklist
Written(decl, deps) == Ok([decl |-> decl, deps |-> deps])

\* the locals of the arm for Struct and Union
Locals(offset, agg_content, impl_default, gen_impl_default, deps) ==
    [offset |-> offset, agg_content |-> agg_content, impl_default |-> impl_default,
     gen_impl_default |-> gen_impl_default, deps |-> deps]

\* if padding != 0 { agg_content.push(..); impl_default.push(..) }
WithPadding(st, padding) ==
    IF padding = 0 THEN st
    ELSE [st EXCEPT !.agg_content = Append(@, PadField(st.offset, padding)),
                    !.impl_default = Append(@, PadInit(st.offset, padding))]

RECURSIVE MemberLoop(_, _, _, _, _)
\* agg_content.push(format!("    pub {field_name}: {field_ty_str},"))
MemberDeclared(self, t, packed, i, st, member, field_ty_id, decl) ==
    IF decl.tag # "Ok" THEN decl
    ELSE The({MemberLoop(self, t, packed, i + 1, s) :
                s \in {[st EXCEPT !.agg_content =
                          Append(@, PubField(IF member.name # <<>> THEN member.name
                                             ELSE Show(decl.val),
                                             decl.val, field_ty_id))]}})

\* offset = ((member.bit_offset / 8) + self.size_of(field_ty_id)?) as usize
MemberSized(self, t, packed, i, st, member, field_ty_id, size) ==
    IF size.tag # "Ok" THEN size
    ELSE The({MemberDeclared(self, t, packed, i, s, member, field_ty_id, decl) :
                s \in {[st EXCEPT !.offset = (member.bit_offset \div 8) + size.val]},
                decl \in {type_declaration(self, field_ty_id)}})

\* match self.type_default(field_ty_id)
MemberDefaulted(self, t, packed, i, st, member, field_ty_id, dflt) ==
    IF dflt.tag \notin {"Ok", "Err"} THEN dflt
    ELSE IF dflt.tag = "Err" /\ (st.gen_impl_default \/ t.kind # "Struct") THEN Fail("Err")
    ELSE The({MemberSized(self, t, packed, i, s, member, field_ty_id, size) :
                s \in {IF dflt.tag = "Ok"
                       THEN [st EXCEPT !.impl_default =
                                Append(@, FieldInit(member.name, dflt.val))]
                       ELSE st},
                size \in {size_of(self, field_ty_id)}})

\* a member loop that asks for the impl from 32 elements on
MemberPaddedFrom32(self, t, packed, i, st, member, field_ty_id, padding) ==
    IF padding.tag # "Ok" THEN padding
    ELSE The({MemberDefaulted(self, t, packed, i, s, member, field_ty_id, dflt) :
                s \in {[WithPadding(st, padding.val) EXCEPT !.gen_impl_default =
                          @ \/ (/\ t.kind = "Struct"
                                /\ TypeOf(self, field_ty_id).kind = "Array"
                                /\ TypeOf(self, field_ty_id).nelems >= 32)]},
                dflt \in {type_default(self, field_ty_id)}})

\* the padding before the member, and gen_impl_default for an array of more than 32
MemberPadded(self, t, packed, i, st, member, field_ty_id, padding) ==
    IF padding.tag # "Ok" THEN padding
    ELSE The({MemberDefaulted(self, t, packed, i, s, member, field_ty_id, dflt) :
                s \in {[WithPadding(st, padding.val) EXCEPT !.gen_impl_default =
                          @ \/ (/\ t.kind = "Struct"
                                /\ TypeOf(self, field_ty_id).kind = "Array"
                                /\ TypeOf(self, field_ty_id).nelems > 32)]},
                dflt \in {type_default(self, field_ty_id)}})

\* if let Some(next_ty_id) = next_type(field_ty_id)? { dependent_types.push(next_ty_id) }
MemberNext(self, t, packed, i, st, member, field_ty_id, nt) ==
    IF nt.tag \notin {"Some", "None"} THEN nt
    ELSE The({MemberPadded(self, t, packed, i, s, member, field_ty_id, padding) :
                s \in {IF nt.tag = "Some" THEN [st EXCEPT !.deps = Append(@, nt.val)] ELSE st},
                padding \in {IF t.kind = "Struct"
                             THEN required_padding(self, st.offset, member.bit_offset \div 8,
                                                   member.type_id, packed)
                             ELSE Ok(0)}})

\* let field_ty_id = self.skip_mods_and_typedefs(member.type_id)?
MemberSkipped(self, t, packed, i, st, member, field) ==
    IF field.tag # "Ok" THEN field
    ELSE The({MemberNext(self, t, packed, i, st, member, field.val, nt) :
                nt \in {next_type(self, field.val)}})

\* for member in &t.members, the body
MemberBody(self, t, packed, i, st, member) ==
    IF ~(member.bit_size = 0 /\ member.bit_offset % 8 = 0) THEN Fail("Err")
    ELSE The({MemberSkipped(self, t, packed, i, st, member, field) :
                field \in {skip_mods_and_typedefs(self, member.type_id)}})

\* the loop over the members of a Struct or Union, from member i on
MemberLoop(self, t, packed, i, st) ==
    IF i > Len(t.members) THEN Ok(st)
    ELSE The({MemberBody(self, t, packed, i, st, member) : member \in {t.members[i]}})

\* a union whose Default names the initializer collected last
CompositeWrittenLast(type_id, t, packed, st) ==
    IF t.kind = "Struct"
    THEN Written(Decl("struct", type_id, t.name,
                      IF st.gen_impl_default THEN <<"Debug", "Copy", "Clone">>
                      ELSE <<"Debug", "Default", "Copy", "Clone">>,
                      IF packed THEN <<"C", "packed">> ELSE <<"C">>,
                      st.agg_content, <<>>, st.gen_impl_default,
                      IF st.gen_impl_default THEN st.impl_default ELSE <<>>, FALSE),
                 st.deps)
    ELSE IF st.impl_default = <<>> THEN Fail("Panic")
    ELSE Written(Decl("union", type_id, t.name, <<"Copy", "Clone">>,
                      IF packed THEN <<"C", "packed">> ELSE <<"C">>,
                      st.agg_content, <<>>, TRUE,
                      <<st.impl_default[Len(st.impl_default)]>>, TRUE),
                 st.deps)

\* the attributes, the declaration and the impls written after the loop
CompositeWritten(type_id, t, packed, st) ==
    IF t.kind = "Struct"
    THEN Written(Decl("struct", type_id, t.name,
                      IF st.gen_impl_default THEN <<"Debug", "Copy", "Clone">>
                      ELSE <<"Debug", "Default", "Copy", "Clone">>,
                      IF packed THEN <<"C", "packed">> ELSE <<"C">>,
                      st.agg_content, <<>>, st.gen_impl_default,
                      IF st.gen_impl_default THEN st.impl_default ELSE <<>>, FALSE),
                 st.deps)
    ELSE IF st.impl_default = <<>> THEN Fail("Panic")
    ELSE Written(Decl("union", type_id, t.name, <<"Copy", "Clone">>,
                      IF packed THEN <<"C", "packed">> ELSE <<"C">>,
                      st.agg_content, <<>>, TRUE, <<st.impl_default[1]>>, TRUE),
                 st.deps)

\* the padding after the last member
CompositePadded(type_id, t, packed, st, padding) ==
    IF padding.tag # "Ok" THEN padding
    ELSE The({CompositeWritten(type_id, t, packed, s) : s \in {WithPadding(st, padding.val)}})

CompositeMembers(self, type_id, t, packed, r) ==
    IF r.tag # "Ok" THEN r
    ELSE The({CompositePadded(type_id, t, packed, r.val, padding) :
                padding \in {IF t.kind = "Struct"
                             THEN required_padding(self, r.val.offset, t.size, type_id, packed)
                             ELSE Ok(0)}})

CompositePacked(self, type_id, t, packed) ==
    IF packed.tag # "Ok" THEN packed
    ELSE The({CompositeMembers(self, type_id, t, packed.val, r) :
                r \in {MemberLoop(self, t, packed.val, 1, Locals(0, <<>>, <<>>, FALSE, <<>>))}})

\* the arm BtfType::Struct(t) | BtfType::Union(t) of type_definition
gen_composite(self, type_id, t) ==
    The({CompositePacked(self, type_id, t, packed) : packed \in {is_struct_packed(self, type_id, t)}})

\* #[repr({signed}{repr_size})]
EnumRepr(signed, size) ==
    IF signed
    THEN CASE size = 1 -> "i8" [] size = 2 -> "i16" [] size = 4 -> "i32"
           [] size = 8 -> "i64" [] size = 16 -> "i128"
    ELSE CASE size = 1 -> "u8" [] size = 2 -> "u16" [] size = 4 -> "u32"
           [] size = 8 -> "u64" [] size = 16 -> "u128"

\* the Default impl of an enum names its first value
EnumDefault(t) ==
    IF t.values = <<>> THEN <<>>
    ELSE <<FieldInit(t.values[1].name, RDefault("variant", RNamed(t.name), <<>>, 0))>>

\* the arm BtfType::Enum(t)
gen_enum(type_id, t) ==
    IF t.size \notin {1, 2, 4, 8, 16} THEN Fail("Err")
    ELSE Written(Decl("enum", type_id, t.name, <<"Debug", "Copy", "Clone", "PartialEq", "Eq">>,
                      <<EnumRepr(\E i \in 1..Len(t.values) : t.values[i].value < 0, t.size)>>,
                      <<>>, t.values, t.values # <<>>, EnumDefault(t), FALSE),
                 <<>>)

\* an arm for Enum64 that takes 16 bytes as the arm for Enum does
gen_enum64_wide(type_id, t) ==
    IF t.size \notin {1, 2, 4, 8, 16} THEN Fail("Err")
    ELSE Written(Decl("enum", type_id, t.name, <<"Debug", "Copy", "Clone", "PartialEq", "Eq">>,
                      <<EnumRepr(t.signed, t.size)>>, <<>>, t.values,
                      t.values # <<>>, EnumDefault(t), FALSE),
                 <<>>)

\* the arm BtfType::Enum64(t)
gen_enum64(type_id, t) ==
    IF t.size \notin {1, 2, 4, 8} THEN Fail("Err")
    ELSE Written(Decl("enum", type_id, t.name, <<"Debug", "Copy", "Clone", "PartialEq", "Eq">>,
                      <<EnumRepr(t.signed, t.size)>>, <<>>, t.values,
                      t.values # <<>>, EnumDefault(t), FALSE),
                 <<>>)

RECURSIVE VarLoop(_, _, _, _)
\* writeln!(def, "    pub {var_name}: {var_type},")
VarDeclared(self, t, i, st, datasec_var, var, decl) ==
    IF decl.tag # "Ok" THEN decl
    ELSE The({VarLoop(self, t, i + 1, s) :
                s \in {[st EXCEPT !.offset = datasec_var.offset + datasec_var.size,
                                  !.agg_content =
                                      Append(@, PubField(var.name, decl.val, var.type_id))]}})

VarPadded(self, t, i, st, datasec_var, var, padding) ==
    IF padding.tag # "Ok" THEN padding
    ELSE The({VarDeclared(self, t, i, s, datasec_var, var, decl) :
                s \in {IF padding.val = 0 THEN st
                       ELSE [st EXCEPT !.agg_content =
                                Append(@, PadField(st.offset, padding.val))]},
                decl \in {type_declaration(self, var.type_id)}})

VarNext(self, t, i, st, datasec_var, var, nt) ==
    IF nt.tag \notin {"Some", "None"} THEN nt
    ELSE The({VarPadded(self, t, i, s, datasec_var, var, padding) :
                s \in {IF nt.tag = "Some" THEN [st EXCEPT !.deps = Append(@, nt.val)] ELSE st},
                padding \in {required_padding(self, st.offset, datasec_var.offset,
                                              var.type_id, FALSE)}})

\* match self.type_by_id(datasec_var.type_id)?
VarBody(self, t, i, st, datasec_var, v) ==
    IF v.tag # "Ok" THEN Fail("Err")
    ELSE IF v.val.kind # "Var" THEN Fail("Err")
    ELSE IF v.val.linkage = "Static" THEN VarLoop(self, t, i + 1, st)
    ELSE The({VarNext(self, t, i, st, datasec_var, v.val, nt) :
                nt \in {next_type(self, v.val.type_id)}})

\* the loop over the variables of a Datasec, from variable i on
VarLoop(self, t, i, st) ==
    IF i > Len(t.vars) THEN Ok(st)
    ELSE The({VarBody(self, t, i, st, datasec_var, v) :
                datasec_var \in {t.vars[i]},
                v \in {type_by_id(self.types, t.vars[i].type_id)}})

DatasecWritten(type_id, t, r) ==
    IF r.tag # "Ok" THEN r
    ELSE Written(Decl("struct", type_id, Tail(t.name), <<"Debug", "Copy", "Clone">>,
                      <<"C">>, r.val.agg_content, <<>>, FALSE, <<>>, FALSE),
                 r.val.deps)

\* the arm BtfType::Datasec(t)
gen_datasec(self, type_id, t) ==
    IF t.name = <<>> \/ t.name[1] # 46 THEN Fail("Err")
    ELSE The({DatasecWritten(type_id, t, r) :
                r \in {VarLoop(self, t, 1, Locals(0, <<>>, <<>>, FALSE, <<>>))}})

GenTypeOf(self, type_id, r) ==
    IF r.tag # "Ok" THEN Fail("Err")
    ELSE CASE r.val.kind \in {"Struct", "Union"} -> gen_composite(self, type_id, r.val)
           [] r.val.kind = "Enum" -> gen_enum(type_id, r.val)
           [] r.val.kind = "Enum64" -> gen_enum64(type_id, r.val)
           [] r.val.kind = "Datasec" -> gen_datasec(self, type_id, r.val)
           [] OTHER -> Fail("Err")

\* the match on the type taken off the worklist
gen_type(self, type_id) ==
    The({GenTypeOf(self, type_id, r) : r \in {type_by_id(self.types, type_id)}})

(***************************************************************************)
(* type_definition, one iteration of its while loop at a time.  qret is    *)
(* Running until it returns; the text it returns is def.  A handler whose  *)
(* inner loop never returns is left in that loop (gpc names it, cur is its *)
(* loop variable); a panic or a stack overflow ends the call.              *)
(***************************************************************************)
\* the function returns r (or the process ends with r); its locals are dropped
GenReturn(r) ==
    /\ gpc' = "done"
    /\ qret' = r
    /\ dependent_types' = <<>>
    /\ processed' = {}
    /\ def' = <<>>

\* a generator that keeps, across calls, the types it has declared
TypeDefinitionRemembering(type_id, term) ==
    IF term.tag # "Ok" \/ term.val THEN GenReturn(Fail("Err"))
    ELSE /\ gpc' = "loop"
         /\ qret' = Running
         /\ dependent_types' = <<type_id>>
         /\ processed' = {r.id : r \in {c \in returned : c.op = "type_definition"}}
         /\ def' = <<>>

\* ensure!(!is_terminal(type_id)?, ..), then the locals of the loop
TypeDefinitionChecked(type_id, term) ==
    IF term.tag # "Ok" \/ term.val THEN GenReturn(Fail("Err"))
    ELSE /\ gpc' = "loop"
         /\ qret' = Running
         /\ dependent_types' = <<type_id>>
         /\ processed' = {}
         /\ def' = <<>>

\* the call, up to the while loop
TypeDefinition(type_id) ==
    /\ built /\ qop = "none"
    /\ qop' = "type_definition"
    /\ qarg' = type_id
    /\ \E term \in {is_terminal(Self, type_id)} : TypeDefinitionChecked(type_id, term)
    /\ UNCHANGED <<rsVars, decVars, btfVars, cur, tick, qerrs, returned>>

\* a loop that puts the types a handler found before the ones that wait
GenHandledDepthFirst(type_id, r) ==
    CASE r.tag = "Ok" ->
           /\ dependent_types' = r.val.deps \o Tail(dependent_types)
           /\ processed' = processed \cup {type_id}
           /\ def' = Append(def, r.val.decl)
           /\ UNCHANGED <<gpc, qret, cur>>
      [] r.tag \in {"Hang", "HangNext"} ->
           /\ gpc' = (IF r.tag = "Hang" THEN "skip_mods_and_typedefs" ELSE "next_type")
           /\ cur' = r.val
           /\ dependent_types' = Tail(dependent_types)
           /\ processed' = processed \cup {type_id}
           /\ UNCHANGED <<def, qret>>
      [] OTHER -> GenReturn(r) /\ UNCHANGED cur

\* what the match on the type makes of the iteration
GenHandled(type_id, r) ==
    CASE r.tag = "Ok" ->
           /\ dependent_types' = Tail(dependent_types) \o r.val.deps
           /\ processed' = processed \cup {type_id}
           /\ def' = Append(def, r.val.decl)
           /\ UNCHANGED <<gpc, qret, cur>>
      [] r.tag \in {"Hang", "HangNext"} ->
           /\ gpc' = (IF r.tag = "Hang" THEN "skip_mods_and_typedefs" ELSE "next_type")
           /\ cur' = r.val
           /\ dependent_types' = Tail(dependent_types)
           /\ processed' = processed \cup {type_id}
           /\ UNCHANGED <<def, qret>>
      [] OTHER -> GenReturn(r) /\ UNCHANGED cur

\* a loop that gives up on a type it has processed before
GenSeenFails == GenReturn(Fail("Err")) /\ UNCHANGED cur

\* if processed.contains(&type_id) { continue }
GenSeen ==
    /\ dependent_types' = Tail(dependent_types)
    /\ UNCHANGED <<processed, def, gpc, qret, cur>>

\* one iteration of the while loop
GenIter ==
    /\ gpc = "loop" /\ dependent_types # <<>>
    /\ IF Head(dependent_types) \in processed
       THEN GenSeen
       ELSE \E r \in {gen_type(Self, Head(dependent_types))} :
               GenHandled(Head(dependent_types), r)
    /\ UNCHANGED <<rsVars, decVars, btfVars, qop, qarg, tick, qerrs, returned>>

\* the worklist is empty: Ok(def)
GenDone ==
    /\ gpc = "loop" /\ dependent_types = <<>>
    /\ gpc' = "done"
    /\ qret' = Ok(0)
    /\ UNCHANGED <<rsVars, decVars, btfVars, qop, qarg, cur, tick, qerrs, returned, dependent_types, processed, def>>

\* one more iteration of an inner loop that revisits the types of a cycle
GenSpin ==
    /\ gpc \in {"skip_mods_and_typedefs", "next_type"}
    /\ \E s \in {IF gpc = "next_type" THEN next_type_iter(Self, cur) ELSE skip_iter(Self, cur)} :
          /\ s.tag = "Next"
          /\ cur' = s.val
    /\ tick' = 1 - tick
    /\ UNCHANGED <<rsVars, decVars, btfVars, qop, qarg, qret, qerrs, returned, genVars>>

NextGen ==
    \/ \E type_id \in 0..IdPast : TypeDefinition(type_id)
    \/ GenIter
    \/ GenDone
    \/ GenSpin

SpecGen == InitBtf /\ [][NextGen]_vars
\* a call that can take a step takes it
FairGen == SpecGen /\ WF_vars(NextGen)

(***************************************************************************)
(* Claims on the declaration generator                                     *)
(***************************************************************************)
\* C3: type_definition terminates on every graph, cyclic ones included
C3_TypeDefinitionTerminates ==
    (qop = "type_definition" /\ qret = Running) ~> (gpc = "done")

\* the call returned Ok(def)
Generated == qop = "type_definition" /\ gpc = "done" /\ qret.tag = "Ok"

\* the declaration written under a name; the one of a nested type precedes nothing
\* it depends on, so the search is over all of def
DeclNamed(name) == def[CHOOSE i \in 1..Len(def) : def[i].name = name]
IsDeclared(name) == \E i \in 1..Len(def) : def[i].name = name

AlignUp(offset, align) == ((offset + align - 1) \div align) * align

\* size and alignment the Rust compiler gives a type: an integer or float is aligned
\* to its size, at most to the pointer size; a repr(C) struct to its most aligned
\* field and a repr(C, packed) one to 1; an enum is its repr integer
ReprBytes(repr) ==
    CASE repr \in {"i8", "u8"} -> 1 [] repr \in {"i16", "u16"} -> 2
      [] repr \in {"i32", "u32"} -> 4 [] repr \in {"i64", "u64"} -> 8 [] OTHER -> 16

RECURSIVE RustAlign(_, _)
RECURSIVE RustSize(_, _)
RECURSIVE RustEnd(_, _, _)

\* the offset behind field n of the declaration d, and with n = 0 the offset 0
RustEnd(d, n, fuel) ==
    IF n = 0 THEN 0
    ELSE LET before == RustEnd(d, n - 1, fuel)
             at == IF "packed" \in {d.repr[i] : i \in 1..Len(d.repr)} THEN before
                   ELSE AlignUp(before, RustAlign(d.fields[n].ty, fuel))
         IN  IF d.form = "union" THEN RustSize(d.fields[n].ty, fuel)
             ELSE at + RustSize(d.fields[n].ty, fuel)

\* the offset of field n of the struct d
RustOffset(d, n, fuel) ==
    IF "packed" \in {d.repr[i] : i \in 1..Len(d.repr)} THEN RustEnd(d, n - 1, fuel)
    ELSE AlignUp(RustEnd(d, n - 1, fuel), RustAlign(d.fields[n].ty, fuel))

RustAlign(ty, fuel) ==
    CASE ty.k \in {"i", "u", "f"} -> Min(ty.w \div 8, ptr_size)
      [] ty.k \in {"bool", "c_void"} -> 1
      [] ty.k = "ptr" -> ptr_size
      [] ty.k = "array" -> RustAlign(ty.of[1], fuel)
      [] ty.k = "named" ->
           IF fuel = 0 \/ ~IsDeclared(ty.name) THEN 1
           ELSE LET d == DeclNamed(ty.name)
                IN  IF d.form = "enum" THEN Min(ReprBytes(d.repr[1]), ptr_size)
                    ELSE IF "packed" \in {d.repr[i] : i \in 1..Len(d.repr)} THEN 1
                    ELSE SetMax({1} \cup {RustAlign(d.fields[i].ty, fuel - 1) :
                                            i \in 1..Len(d.fields)})

RustSize(ty, fuel) ==
    CASE ty.k \in {"i", "u", "f"} -> ty.w \div 8
      [] ty.k \in {"bool", "c_void"} -> 1
      [] ty.k = "ptr" -> ptr_size
      [] ty.k = "array" -> ty.n * RustSize(ty.of[1], fuel)
      [] ty.k = "named" ->
           IF fuel = 0 \/ ~IsDeclared(ty.name) THEN 0
           ELSE LET d == DeclNamed(ty.name)
                IN  IF d.form = "enum" THEN ReprBytes(d.repr[1])
                    ELSE IF d.form = "union"
                    THEN AlignUp(SetMax({0} \cup {RustEnd(d, i, fuel - 1) : i \in 1..Len(d.fields)}),
                                 RustAlign(ty, fuel))
                    ELSE AlignUp(RustEnd(d, Len(d.fields), fuel - 1), RustAlign(ty, fuel))

\* the fields of a declaration that are members, in order
MemberFields(d) == SelectSeq([i \in 1..Len(d.fields) |-> i], LAMBDA i : ~d.fields[i].pad)

\* the declaration d of the struct t lays its members out as BTF does
LaidOutAsBtf(d, t) ==
    /\ Len(MemberFields(d)) = Len(t.members)
    /\ \A j \in 1..Len(t.members) :
          RustOffset(d, MemberFields(d)[j], Len(def)) = t.members[j].bit_offset \div 8
    /\ RustSize(RNamed(d.name), Len(def) + 1) = t.size

\* C5: the declaration of every struct of a generated text, laid out by the Rust
\* compiler, has each member at the byte offset BTF gives it and the size BTF gives
\* the struct
C5_LayoutEquivalent ==
    Generated =>
        \A k \in 1..Len(def) :
            types[def[k].id + 1].kind = "Struct" => LaidOutAsBtf(def[k], types[def[k].id + 1])

RECURSIVE SumOf(_)
SumOf(q) == IF q = <<>> THEN 0 ELSE Head(q) + SumOf(Tail(q))

\* the sizes of the members of t and the lengths of the padding fields of d, added up
SizesAndPadding(d, t) ==
    SumOf([j \in 1..Len(t.members) |-> size_of(Self, t.members[j].type_id).val])
    + SumOf([i \in 1..Len(d.fields) |-> d.fields[i].len])

\* the claim as stated, for Struct and Union
C8_SumWithinSizeOfComposite ==
    Generated =>
        \A k \in 1..Len(def) :
            types[def[k].id + 1].kind \in {"Struct", "Union"} =>
                SizesAndPadding(def[k], types[def[k].id + 1]) <= types[def[k].id + 1].size

\* C8: for every Struct of a generated text, the sizes of its members and the lengths
\* of the padding fields written for it add up to no more than its stored size
C8_SumWithinSizeOfStruct ==
    Generated =>
        \A k \in 1..Len(def) :
            types[def[k].id + 1].kind = "Struct" =>
                SizesAndPadding(def[k], types[def[k].id + 1]) <= types[def[k].id + 1].size

\* a struct of two members with padding before the second and behind it, which add
\* up to the stored size
C8_Witness ==
    /\ Generated
    /\ \E k \in 1..Len(def) :
          /\ types[def[k].id + 1].kind = "Struct"
          /\ Len(types[def[k].id + 1].members) = 2
          /\ Len(def[k].fields) = 4
          /\ SizesAndPadding(def[k], types[def[k].id + 1]) = types[def[k].id + 1].size

\* the running byte offset before member j of the struct t: the end of the member
\* before it, and before the first member 0; j = Len(t.members) + 1 is the end of t
RunningOffset(t, j) ==
    IF j = 1 THEN 0
    ELSE (t.members[j - 1].bit_offset \div 8) + size_of(Self, t.members[j - 1].type_id).val

\* the length of the padding field written right before member j in the declaration d
\* (behind the last member with j = number of members + 1), 0 when there is none
PadLenBefore(d, j) ==
    LET at == IF j > Len(MemberFields(d)) THEN Len(d.fields) ELSE MemberFields(d)[j] - 1
    IN  IF at >= 1 /\ d.fields[at].pad THEN d.fields[at].len ELSE 0

\* the byte offset member j must have; with j = number of members + 1 the size of t
RequiredOffset(t, j) ==
    IF j > Len(t.members) THEN t.size ELSE t.members[j].bit_offset \div 8

\* the declarations of the structs of a generated text, each with its struct
StructsWritten ==
    {<<def[k], types[def[k].id + 1]>> : k \in {n \in 1..Len(def) : types[def[n].id + 1].kind = "Struct"}}

\* the claim as stated: wherever the required offset is past the running offset, a
\* padding field of the length of the gap is written
C13_PaddingClosesEveryGap ==
    Generated =>
        \A p \in StructsWritten :
            \A j \in 1..(Len(p[2].members) + 1) :
                RequiredOffset(p[2], j) > RunningOffset(p[2], j) =>
                    PadLenBefore(p[1], j) = RequiredOffset(p[2], j) - RunningOffset(p[2], j)

\* the alignment required_padding rounds the running offset up to before member j (or
\* at the end) of the struct with the id `id`: 1 in a packed struct, else the
\* alignment of the member's type (of the struct, at the end), at most 4
RoundsTo(d, t, id, j) ==
    IF "packed" \in {d.repr[i] : i \in 1..Len(d.repr)} THEN 1
    ELSE Min(4, align_of(Self, IF j > Len(t.members) THEN id ELSE t.members[j].type_id).val)

\* C13: in a generated struct a padding field is written before a member (and behind
\* the last one) exactly where rounding the running offset up to the alignment does
\* not give the required offset and the two differ; its length is the gap
C13_PaddingWhereNotAligned ==
    Generated =>
        \A p \in StructsWritten :
            \A j \in 1..(Len(p[2].members) + 1) :
                PadLenBefore(p[1], j) =
                    IF AlignUp(RunningOffset(p[2], j), RoundsTo(p[1], p[2], p[1].id, j))
                           = RequiredOffset(p[2], j)
                    THEN 0
                    ELSE RequiredOffset(p[2], j) - RunningOffset(p[2], j)

\* a struct { u8 @0, u32 @4 } of size 16: no field before the u32, which its alignment
\* places, and a field of 8 bytes behind it
C13_Witness ==
    /\ Generated
    /\ \E p \in StructsWritten :
          /\ Len(p[2].members) = 2 /\ p[2].size = 16
          /\ p[2].members[1].type_id = 1 /\ p[2].members[2].type_id = 2
          /\ RequiredOffset(p[2], 2) = 4
          /\ PadLenBefore(p[1], 2) = 0
          /\ PadLenBefore(p[1], 3) = 8

\* the declarations written for the Datasecs of a generated text, each with its Datasec
DatasecsWritten ==
    {<<def[k], types[def[k].id + 1]>> : k \in {n \in 1..Len(def) : types[def[n].id + 1].kind = "Datasec"}}

\* the slots of the Datasec t whose variable is not static, in the order of the section
EmittedVars(t) == SelectSeq(t.vars, LAMBDA v : TypeOf(Self, v.type_id).linkage # "Static")

\* the running offset before the j-th emitted variable: the end of the one before it
VarRunningOffset(vs, j) == IF j = 1 THEN 0 ELSE vs[j - 1].offset + vs[j - 1].size

\* the padding the rule of the structs gives between the running offset and the
\* stored offset of the j-th emitted variable, rounding to the alignment a
VarPaddingBy(vs, j, a) ==
    IF AlignUp(VarRunningOffset(vs, j), a) = vs[j].offset THEN 0
    ELSE vs[j].offset - VarRunningOffset(vs, j)

\* the alignment of the type of the variable in the slot v
VarAlign(v) == align_of(Self, TypeOf(Self, v.type_id).type_id).val

\* the claim as stated: the alignment of the variable is used as it is
C14_DatasecPaddingUncapped ==
    Generated =>
        \A p \in DatasecsWritten :
            \A j \in 1..Len(EmittedVars(p[2])) :
                PadLenBefore(p[1], j) = VarPaddingBy(EmittedVars(p[2]), j, VarAlign(EmittedVars(p[2])[j]))

\* C14: the padding written before each non-static variable of a Datasec follows from
\* the running offset (stored offset + stored size of the variable emitted before it)
\* and the stored offset of the variable by the rule of the structs, cap at 4 included
C14_DatasecPadding ==
    Generated =>
        \A p \in DatasecsWritten :
            /\ Len(MemberFields(p[1])) = Len(EmittedVars(p[2]))
            /\ \A j \in 1..Len(EmittedVars(p[2])) :
                  PadLenBefore(p[1], j) =
                      VarPaddingBy(EmittedVars(p[2]), j, Min(4, VarAlign(EmittedVars(p[2])[j])))

\* a section with a u64 variable in the slots (0, 4) and (8, 8) where the alignment of
\* u64 is 8: 4 bytes of padding are written before the second
C14_Witness ==
    /\ Generated
    /\ \E p \in DatasecsWritten :
          /\ Len(EmittedVars(p[2])) = 2
          /\ VarAlign(EmittedVars(p[2])[2]) = 8
          /\ VarRunningOffset(EmittedVars(p[2]), 2) = 4
          /\ PadLenBefore(p[1], 2) = 4

\* the struct with the id `id` has a member that is a pointer to the struct, the
\* pointer or its pointee possibly behind modifiers and typedefs
SelfPointing(id) ==
    /\ type_by_id(types, id).tag = "Ok"
    /\ TypeOf(Self, id).kind = "Struct"
    /\ \E j \in 1..Len(TypeOf(Self, id).members) :
          LET sk == skip_mods_and_typedefs(Self, TypeOf(Self, id).members[j].type_id)
          IN  /\ sk.tag = "Ok"
              /\ TypeOf(Self, sk.val).kind = "Ptr"
              /\ skip_mods_and_typedefs(Self, TypeOf(Self, sk.val).type_id) = Ok(id)

\* the members of the struct t are no bit fields, have a size, follow each other
\* without overlap and end within the stored size
WellLaidOut(t) ==
    /\ \A j \in 1..Len(t.members) :
          /\ t.members[j].bit_size = 0 /\ t.members[j].bit_offset % 8 = 0
          /\ size_of(Self, t.members[j].type_id).tag = "Ok"
    /\ \A j \in 1..(Len(t.members) + 1) : RunningOffset(t, j) <= RequiredOffset(t, j)

\* the number of declarations of the type `id` in the text
TimesDeclared(id) == Cardinality({k \in 1..Len(def) : def[k].id = id})

\* C15: type_definition of a struct with a member pointing to the struct returns, and
\* where the members are laid out well it returns the text, which declares the struct
\* exactly once
C15_SelfPointerStruct ==
    (qop = "type_definition" /\ SelfPointing(qarg)) ~>
        (/\ gpc = "done"
         /\ (SelfPointing(qarg) /\ WellLaidOut(TypeOf(Self, qarg))) =>
                (Generated /\ TimesDeclared(qarg) = 1))

\* the text of a struct whose member is a typedef of a pointer to the struct
C15_Witness ==
    /\ Generated /\ SelfPointing(qarg) /\ TimesDeclared(qarg) = 1
    /\ TypeOf(Self, TypeOf(Self, qarg).members[1].type_id).kind = "Typedef"

\* the text of a struct whose member is a pointer to a typedef of the struct
C15_WitnessPointee ==
    /\ Generated /\ SelfPointing(qarg) /\ TimesDeclared(qarg) = 1
    /\ TypeOf(Self, TypeOf(Self, qarg).members[1].type_id).kind = "Ptr"
    /\ Len(types) > IdZ /\ TypeOf(Self, IdZ).kind = "Typedef"

\* the kinds that are declared, and the kinds that lead on to another type
DeclaredKinds == {"Struct", "Union", "Enum", "Enum64", "Datasec"}
IndirectKinds == {"Ptr", "Array", "Volatile", "Const", "Restrict", "Typedef", "DeclTag", "TypeTag"}

RECURSIVE Unwrap(_, _)
\* the declared type the type `id` leads to through at most `fuel` indirections, as a
\* sequence of one id; the empty sequence where it ends at a leaf
Unwrap(id, fuel) ==
    IF id >= Len(types) \/ fuel = 0 THEN <<>>
    ELSE IF types[id + 1].kind \in DeclaredKinds THEN <<id>>
    ELSE IF types[id + 1].kind \in IndirectKinds
         THEN Unwrap(types[id + 1].type_id, fuel - 1)
    ELSE <<>>

RECURSIVE Flatten(_)
Flatten(ss) == IF ss = <<>> THEN <<>> ELSE Head(ss) \o Flatten(Tail(ss))

\* the types the type `id` refers to: those of the members of a struct or union, those
\* of the variables of a section that are not static; in their order
RefsOf(id) ==
    LET t == types[id + 1]
    IN  CASE t.kind \in {"Struct", "Union"} -> [j \in 1..Len(t.members) |-> t.members[j].type_id]
          [] t.kind = "Datasec" ->
               [j \in 1..Len(EmittedVars(t)) |-> types[EmittedVars(t)[j].type_id + 1].type_id]
          [] OTHER -> <<>>

\* the declared types discovered at the type `id`, in their order
Discovered(id) == Flatten([j \in 1..Len(RefsOf(id)) |-> Unwrap(RefsOf(id)[j], Len(types))])

RECURSIVE FirstDiscovery(_, _)
\* the types in the order of their first discovery, breadth first from the queue on
FirstDiscovery(queue, out) ==
    IF queue = <<>> THEN out
    ELSE IF \E k \in 1..Len(out) : out[k] = Head(queue) THEN FirstDiscovery(Tail(queue), out)
    ELSE FirstDiscovery(Tail(queue) \o Discovered(Head(queue)), Append(out, Head(queue)))

\* C16: the text type_definition returns declares the requested type first and then
\* each declared type that can be reached from it, once, in the order of first
\* discovery of a breadth-first walk; it declares nothing else
C16_BreadthFirst ==
    Generated => [k \in 1..Len(def) |-> def[k].id] = FirstDiscovery(<<qarg>>, <<>>)

\* Y { a: Z, b: X } with Z { a: W }: the text declares Y, Z, X, W in this order
C16_Witness ==
    /\ Generated
    /\ [k \in 1..Len(def) |-> def[k].id] = <<IdY, IdZ, IdX, IdW>>
    /\ types[IdZ + 1].members[1].type_id = IdW

\* a section whose only variable is static and of a struct type: the struct is not declared
C16_WitnessStatic ==
    /\ Generated
    /\ types[qarg + 1].kind = "Datasec"
    /\ Len(types) > IdZ /\ types[IdX + 1].linkage = "Static" /\ types[IdX + 1].kind = "Var"
    /\ Len(def) = 1

(***************************************************************************)
(* Claims on the decoded graph                                             *)
(***************************************************************************)
RECURSIVE RecordsOf(_)
\* the records of a type table without a fault, each as its kind, its size/type word
\* and whether its name is the empty string of the string section
RecordsOf(td) ==
    IF td = <<>> THEN <<>>
    ELSE LET info == Word(td, 4)
             kind == BtfKindTryFrom(get_kind(info))
         IN  <<[kind |-> kind, x |-> U32(td, 8), noname |-> str_data[U32(td, 0) + 1] = 0]>>
                 \o RecordsOf(Drop(td, 12 + TrailingBytes(kind, get_vlen(info))))

AnonKinds == {"Struct", "Union", "Enum", "Enum64"}

\* the number of anonymous structs, unions and enums among the first k records
AnonUpTo(recs, k) == Cardinality({j \in 1..k : recs[j].kind \in AnonKinds /\ recs[j].noname})

\* "__anon_<n>" for a number of one digit
AnonNamed(n) == <<95, 95, 97, 110, 111, 110, 95, 48 + n>>

\* C17: the k-th node of a struct, union, enum or enum64 without a name is named
\* __anon_<n>, n the number of such records up to it; the other nodes keep their names
C17_AnonNames ==
    built =>
        LET recs == RecordsOf(type_data)
        IN  /\ anon_count = AnonUpTo(recs, Len(recs))
            /\ \A k \in 1..Len(recs) :
                  IF recs[k].kind \in AnonKinds /\ recs[k].noname
                  THEN types[k + 1].name = AnonNamed(AnonUpTo(recs, k))
                  ELSE recs[k].noname <=> types[k + 1].name = <<>>

\* three structs without a name: __anon_1, __anon_2, __anon_3
C17_Witness ==
    /\ built /\ Len(types) = 4
    /\ \A k \in 1..3 : types[k + 1].kind = "Struct" /\ types[k + 1].name = AnonNamed(k)

\* an enum64 and a union without a name around a struct with one: __anon_1, a, __anon_2
C17_WitnessMixed ==
    /\ built /\ Len(types) = 4
    /\ types[2].kind = "Enum64" /\ types[2].name = AnonNamed(1)
    /\ types[3].kind = "Struct" /\ types[3].name = <<97>>
    /\ types[4].kind = "Union" /\ types[4].name = AnonNamed(2)

\* the kinds whose size/type word is the type they refer to, and those where it is a size
RefKinds == {"Ptr", "Typedef", "Volatile", "Const", "Restrict", "Func", "Var", "DeclTag", "TypeTag"}
SizedKinds == {"Struct", "Union", "Enum", "Enum64", "Datasec", "Float"}

\* the record of a signed 32-bit int named "a"
Int32Record == Rec(1, 0, 0, 1, 4, <<32, 0, 0, 1>>)

\* C18: the graph decoded from a table of N records has N + 1 nodes, Void at id 0 and
\* the node of the k-th record at id k; an empty table decodes to the Void node alone
\* and the record of a 32-bit int to a graph of length 2 with the Int at id 1
C18_OneNodePerRecord ==
    /\ built =>
          LET recs == RecordsOf(type_data)
          IN  /\ Len(types) = Len(recs) + 1
              /\ types[1] = BtfVoid
              /\ \A k \in 1..Len(recs) :
                    /\ types[k + 1].kind = recs[k].kind
                    /\ recs[k].kind \in RefKinds => types[k + 1].type_id = recs[k].x
                    /\ recs[k].kind \in SizedKinds => types[k + 1].size = recs[k].x
    /\ (dpc = "done" /\ ~HeaderFault(data) /\ TypeSection(data) = <<>>) =>
          (built /\ types = <<BtfVoid>>)
    /\ (dpc = "done" /\ ~HeaderFault(data) /\ TypeSection(data) = Int32Record) =>
          (built /\ types = <<BtfVoid, BtfInt(<<97>>, 32, 0, "Signed")>>)

\* the graph of the one record of a 32-bit int
C18_Witness ==
    /\ built /\ type_data = Int32Record
    /\ Len(types) = 2 /\ types[2].kind = "Int" /\ types[2].bits = 32

\* the graph of the empty table
C18_WitnessEmpty == built /\ type_data = <<>> /\ types = <<BtfVoid>>

\* the graph of an array followed by a struct of one member
C18_WitnessThree ==
    /\ built /\ Len(types) = 3
    /\ types[2].kind = "Array" /\ types[3].kind = "Struct" /\ Len(types[3].members) = 1

(***************************************************************************)
(* Claims on what the generator refuses and on the Default of a struct     *)
(***************************************************************************)
\* the type `id` is a struct or union with a member that has a bit size or a bit
\* offset that is no multiple of 8
HasBitfield(id) ==
    /\ id < Len(types)
    /\ types[id + 1].kind \in {"Struct", "Union"}
    /\ \E j \in 1..Len(types[id + 1].members) :
          \/ types[id + 1].members[j].bit_size # 0
          \/ types[id + 1].members[j].bit_offset % 8 # 0

\* the loop of type_definition is about to process a struct or union with a bit field
ProcessesBitfield ==
    /\ gpc = "loop" /\ dependent_types # <<>>
    /\ Head(dependent_types) \notin processed
    /\ HasBitfield(Head(dependent_types))

\* C19: the iteration of type_definition that processes a struct or union with a bit
\* field, requested or dependent, returns an error and no text
C19_BitfieldIsError ==
    [][ProcessesBitfield => (gpc' = "done" /\ qret'.tag = "Err" /\ def' = <<>>)]_vars

\* that iteration never writes a declaration: it returns without text (an error, or
\* the process ends), or it stays in an unwrap loop that does not end
C19_BitfieldNeverDeclared ==
    [][ProcessesBitfield =>
          \/ gpc' = "done" /\ qret'.tag \in {"Err", "Panic", "Overflow"} /\ def' = <<>>
          \/ gpc' \in {"skip_mods_and_typedefs", "next_type"} /\ def' = def]_vars

\* the request for a struct with a bit field was answered with an error
C19_Witness ==
    /\ qop = "type_definition" /\ gpc = "done" /\ qret.tag = "Err" /\ def = <<>>
    /\ HasBitfield(qarg)

\* the member m is an array of more than 32 elements, possibly behind modifiers and
\* typedefs
BigArray(m) ==
    LET sk == skip_mods_and_typedefs(Self, m.type_id)
    IN  sk.tag = "Ok" /\ TypeOf(Self, sk.val).kind = "Array" /\ TypeOf(Self, sk.val).nelems > 32

HasBigArray(t) == \E j \in 1..Len(t.members) : BigArray(t.members[j])

Derives(d, trait) == \E i \in 1..Len(d.derive) : d.derive[i] = trait

\* C20: a struct is written with an impl of Default and without the derived Default
\* exactly if one of its members is an array of more than 32 elements; else (with
\* arrays of 32 elements too) it derives Default and has no impl
C20_ImplDefault ==
    Generated =>
        \A p \in StructsWritten :
            /\ p[1].has_impl_default <=> HasBigArray(p[2])
            /\ Derives(p[1], "Default") <=> ~HasBigArray(p[2])
            /\ p[1].has_impl_default => p[1].impl_default # <<>>

\* a struct of an array of 33 bytes, written with the impl
C20_Witness ==
    /\ Generated
    /\ \E p \in StructsWritten :
          /\ p[2].members # <<>>
          /\ TypeOf(Self, p[2].members[1].type_id).kind = "Array"
          /\ TypeOf(Self, p[2].members[1].type_id).nelems = 33
          /\ p[1].has_impl_default /\ ~Derives(p[1], "Default")

\* a struct of an array of exactly 32 bytes, which derives Default
C20_Witness32 ==
    /\ Generated
    /\ \E p \in StructsWritten :
          /\ p[2].members # <<>>
          /\ TypeOf(Self, p[2].members[1].type_id).kind = "Array"
          /\ TypeOf(Self, p[2].members[1].type_id).nelems = 32
          /\ ~p[1].has_impl_default /\ Derives(p[1], "Default")

\* a struct of a typedef of an array of 33 bytes, written with the impl
C20_WitnessTypedef ==
    /\ Generated
    /\ \E p \in StructsWritten :
          /\ p[2].members # <<>>
          /\ TypeOf(Self, p[2].members[1].type_id).kind = "Typedef"
          /\ HasBigArray(p[2])
          /\ p[1].has_impl_default

\* a struct of an array of two arrays of 33 bytes, which derives Default
C20_WitnessNested ==
    /\ Generated
    /\ \E p \in StructsWritten :
          /\ p[2].members # <<>>
          /\ TypeOf(Self, p[2].members[1].type_id).kind = "Array"
          /\ TypeOf(Self, p[2].members[1].type_id).nelems = 2
          /\ TypeOf(Self, TypeOf(Self, p[2].members[1].type_id).type_id).nelems = 33
          /\ Derives(p[1], "Default")

(***************************************************************************)
(* Claims on unions, enums and sections                                    *)
(***************************************************************************)
\* the declarations written for the unions of a generated text, each with its union
UnionsWritten ==
    {<<def[k], types[def[k].id + 1]>> : k \in {n \in 1..Len(def) : types[def[n].id + 1].kind = "Union"}}

ProcessesEnum ==
    /\ gpc = "loop" /\ dependent_types # <<>>
    /\ Head(dependent_types) \notin processed
    /\ Head(dependent_types) < Len(types)
    /\ types[Head(dependent_types) + 1].kind \in {"Enum", "Enum64"}

\* the name of the integer type of a signedness and a width in bits
IntName(sgn, bits) ==
    IF sgn
    THEN CASE bits = 8 -> "i8" [] bits = 16 -> "i16" [] bits = 32 -> "i32"
           [] bits = 64 -> "i64" [] bits = 128 -> "i128"
    ELSE CASE bits = 8 -> "u8" [] bits = 16 -> "u16" [] bits = 32 -> "u32"
           [] bits = 64 -> "u64" [] bits = 128 -> "u128"

\* the declaration d is that of the enum t as C22 describes it
EnumAsSpecified(d, t) ==
    /\ d.form = "enum"
    /\ d.repr = <<IntName(IF t.kind = "Enum"
                          THEN \E i \in 1..Len(t.values) : t.values[i].value < 0
                          ELSE t.signed,
                          8 * t.size)>>
    /\ d.values = t.values
    /\ ~Derives(d, "Default")
    /\ d.has_impl_default <=> t.values # <<>>
    /\ IF t.values = <<>> THEN d.impl_default = <<>>
       ELSE Len(d.impl_default) = 1 /\ d.impl_default[1].name = t.values[1].name

\* C22: the iteration that processes an Enum of size 1, 2, 4, 8 or 16 or an Enum64 of
\* size 1, 2, 4 or 8 writes a declaration of 8 bits per byte, signed exactly if an
\* enumerator of the Enum is negative or the flag of the Enum64 is set, with a Default
\* naming the first enumerator exactly if there is one; any other size is an error
C22_EnumRepresentation ==
    [][ProcessesEnum =>
          LET t == types[Head(dependent_types) + 1]
          IN  IF t.size \in (IF t.kind = "Enum" THEN {1, 2, 4, 8, 16} ELSE {1, 2, 4, 8})
              THEN /\ gpc' = "loop"
                   /\ Len(def') = Len(def) + 1
                   /\ def'[Len(def')].id = Head(dependent_types)
                   /\ EnumAsSpecified(def'[Len(def')], t)
              ELSE gpc' = "done" /\ qret'.tag = "Err" /\ def' = <<>>]_vars

\* the text of an Enum of 2 bytes with a negative enumerator: repr(i16), Default a
C22_Witness ==
    /\ Generated /\ Len(def) = 1
    /\ types[qarg + 1].kind = "Enum" /\ types[qarg + 1].size = 2
    /\ def[1].repr = <<"i16">>
    /\ def[1].has_impl_default /\ def[1].impl_default[1].name = <<97>>

\* the text of an Enum of 16 bytes without enumerators: repr(u128), no Default
C22_WitnessWide ==
    /\ Generated /\ Len(def) = 1
    /\ types[qarg + 1].kind = "Enum" /\ types[qarg + 1].size = 16
    /\ def[1].repr = <<"u128">> /\ ~def[1].has_impl_default

\* the text of a signed Enum64 of 8 bytes, declared for a member of a struct
C22_WitnessEnum64 ==
    /\ Generated /\ Len(def) = 2
    /\ types[def[2].id + 1].kind = "Enum64" /\ types[def[2].id + 1].signed
    /\ def[2].repr = <<"i64">>

\* the request for an Enum64 of 16 bytes was answered with an error
C22_WitnessError ==
    /\ qop = "type_definition" /\ gpc = "done" /\ qret.tag = "Err"
    /\ qarg < Len(types) /\ types[qarg + 1].kind = "Enum64" /\ types[qarg + 1].size = 16

\* the loop of type_definition is about to process a Datasec
ProcessesDatasec ==
    /\ gpc = "loop" /\ dependent_types # <<>>
    /\ Head(dependent_types) \notin processed
    /\ Head(dependent_types) < Len(types)
    /\ types[Head(dependent_types) + 1].kind = "Datasec"

\* the slot v refers to a Var
SlotOfVar(v) == v.type_id < Len(types) /\ types[v.type_id + 1].kind = "Var"

\* the fields of the declaration d are those of the variables of the section t that
\* are not static, one each and in the order of the slots, and every padding field
\* stands before one of them, at the end of the variable emitted before it
FieldsOfEmitted(d, t) ==
    LET vs == EmittedVars(t)
        mf == MemberFields(d)
    IN  /\ Len(mf) = Len(vs)
        /\ \A j \in 1..Len(vs) :
              /\ d.fields[mf[j]].name = types[vs[j].type_id + 1].name
              /\ d.fields[mf[j]].type_id = types[vs[j].type_id + 1].type_id
              /\ PadLenBefore(d, j) = VarPaddingBy(vs, j, Min(4, VarAlign(vs[j])))
        /\ \A i \in 1..Len(d.fields) :
              d.fields[i].pad =>
                  \E j \in 1..Len(vs) :
                      /\ mf[j] = i + 1
                      /\ d.fields[i].at = VarRunningOffset(vs, j)
                      /\ d.fields[i].len = vs[j].offset - VarRunningOffset(vs, j)

\* what the iteration that processes the section t makes of it where every slot
\* refers to a Var and it writes a declaration
SlotsWritten(t) ==
    gpc' = "loop" =>
        /\ Len(def') = Len(def) + 1
        /\ FieldsOfEmitted(def'[Len(def')], t)
        /\ dependent_types' = Tail(dependent_types) \o Discovered(Head(dependent_types))

\* C23: the iteration that processes a Datasec returns an error if a slot does not
\* refer to a Var; else the declaration it writes has one field for each Var that is
\* not static, in slot order, and a static Var adds no field, no padding, no type to
\* the worklist and nothing to the running offset
C23_DatasecSlots ==
    [][ProcessesDatasec =>
          LET t == types[Head(dependent_types) + 1]
          IN  IF \E i \in 1..Len(t.vars) : ~SlotOfVar(t.vars[i])
              THEN gpc' = "done" /\ qret'.tag = "Err" /\ def' = <<>>
              ELSE SlotsWritten(t)]_vars

\* the same, but that with a slot that refers to no Var the call may end or stay in
\* an unwrap loop at a slot before it
C23_DatasecSlotsReached ==
    [][ProcessesDatasec =>
          LET t == types[Head(dependent_types) + 1]
          IN  IF \E i \in 1..Len(t.vars) : ~SlotOfVar(t.vars[i])
              THEN \/ gpc' = "done" /\ qret'.tag \in {"Err", "Panic", "Overflow"} /\ def' = <<>>
                   \/ gpc' \in {"skip_mods_and_typedefs", "next_type"} /\ def' = def
              ELSE SlotsWritten(t)]_vars

\* a section of a static variable at 0 and a global one at 4: the text has the field
\* of the second alone, behind 4 bytes of padding at 0
C23_Witness ==
    /\ Generated /\ Len(def) = 1 /\ Len(types) > IdZ
    /\ types[qarg + 1].kind = "Datasec" /\ Len(types[qarg + 1].vars) = 2
    /\ types[IdX + 1].kind = "Var" /\ types[IdX + 1].linkage = "Static"
    /\ types[IdZ + 1].kind = "Var" /\ types[IdZ + 1].linkage # "Static"
    /\ Len(def[1].fields) = 2
    /\ def[1].fields[1].pad /\ def[1].fields[1].at = 0 /\ def[1].fields[1].len = 4
    /\ def[1].fields[2].name = <<119>>

\* the request for a section whose second slot is an Int was answered with an error
C23_WitnessNoVar ==
    /\ qop = "type_definition" /\ gpc = "done" /\ qret.tag = "Err" /\ Len(types) > IdZ
    /\ types[qarg + 1].kind = "Datasec" /\ Len(types[qarg + 1].vars) = 2
    /\ types[IdX + 1].kind = "Var" /\ types[IdX + 1].linkage # "Static"
    /\ types[IdZ + 1].kind = "Int"

(***************************************************************************)
(* Calls one after another on one Btf.  size_of, align_of and              *)
(* type_definition take &self; a call that returned Ok or Err leaves the   *)
(* caller with the Btf, and the caller calls again.  returned keeps what   *)
(* each finished call returned; the locals of the call are gone.           *)
(***************************************************************************)
MaxCalls == 2

\* sections of one and of two slots: graphs whose text has several declarations,
\* graphs that give an error and graphs on which a call does not return
RepeatGraphs ==
    SectionGraphs
    \cup {g \in SlotGraphs : g[IdX + 1].linkage = "GlobalAlloc" /\ g[IdX + 1].type_id = IdZ}

InitRepeat ==
    /\ NoDecode
    /\ built = TRUE
    /\ types \in RepeatGraphs
    /\ ptr_size \in {4, 8}
    /\ checked \in (IF HasWideInt(types) THEN BOOLEAN ELSE {FALSE})
    /\ NoQuery
    /\ NoRs

\* the call has returned to its caller
CallReturned ==
    /\ qop \in {"size_of", "align_of", "type_definition"}
    /\ qop = "type_definition" => gpc = "done"
    /\ qret.tag \in {"Ok", "Err"}

\* the caller has the result and the Btf, and is free to call again
Return ==
    /\ CallReturned
    /\ Cardinality(returned) < MaxCalls
    /\ returned' = returned \cup {[op |-> qop, id |-> qarg, ret |-> qret, text |-> def]}
    /\ qop' = "none" /\ qarg' = 0 /\ qret' = Fail("None")
    /\ dependent_types' = <<>> /\ processed' = {} /\ def' = <<>> /\ gpc' = "idle"
    /\ UNCHANGED <<rsVars, decVars, btfVars, cur, tick, qerrs>>

NextRepeat ==
    \/ \E type_id \in 0..IdPast : TypeDefinition(type_id)
    \/ GenIter
    \/ GenDone
    \/ GenSpin
    \/ \E id \in 0..IdPast : SizeOf(id)
    \/ \E id \in 0..IdPast : AlignOf(id)
    \/ Return

SpecRepeat == InitRepeat /\ [][NextRepeat]_vars

\* an earlier call of type_definition for the id of the one that has just returned
EarlierCalls == {c \in returned : c.op = "type_definition" /\ c.id = qarg}

\* both calls returned an error, or both the same text
SameResult(c) ==
    /\ c.ret.tag = qret.tag
    /\ c.ret.tag = "Ok" => c.text = def

C24_WitnessError ==
    /\ qop = "type_definition" /\ CallReturned /\ qret.tag = "Err"
    /\ EarlierCalls # {}
    /\ \E c \in returned : c.op = "type_definition" /\ c.id # qarg /\ c.ret.tag = "Ok"

(***************************************************************************)
(* The Btf of libbpf-rs (src/libbpf-rs/src/btf/mod.rs): its constructors,  *)
(* the lookup by name and Drop, and the first step of Btf::new of          *)
(* libbpf-cargo.  A name is a sequence of bytes; rs_libbpf is what libbpf  *)
(* answers: to bpf_object__open_mem (open), to the call that yields the    *)
(* btf pointer (btf) and to the two calls that find a program (prog).      *)
(***************************************************************************)
RsNames == {<<>>, <<97>>, <<0>>, <<97, 98>>, <<97, 0>>, <<0, 97>>}

HasNul(name) == \E i \in 1..Len(name) : name[i] = 0

\* CString::new: an error if a byte is 0, else the bytes with a 0 behind them
CStringNew(name) == IF HasNul(name) THEN Fail("NulError") ELSE Ok(Append(name, 0))

\* util::create_bpf_entity_checked_opt: no pointer is Ok(None), an error pointer Err
create_bpf_entity_checked_opt(ptr) ==
    CASE ptr = "null" -> Ok("None")
      [] ptr = "error" -> Fail("Err")
      [] OTHER -> Ok(ptr)

\* util::create_bpf_entity_checked: no pointer is an error as well
create_bpf_entity_checked(ptr) ==
    IF create_bpf_entity_checked_opt(ptr) = Ok("None") THEN Fail("Err")
    ELSE create_bpf_entity_checked_opt(ptr)

InitRs ==
    /\ NoDecode
    /\ built = FALSE /\ types = <<>> /\ ptr_size = 8 /\ checked = FALSE
    /\ NoQuery
    /\ rs_pc = "idle" /\ rs_op = "none" /\ rs_name = <<>> /\ rs_ret = "none"
    /\ rs_libbpf \in [open : {"null", "error", "obj"}, btf : {"null", "error", "btf"},
                      prog : BOOLEAN]
    /\ drop_policy = "none"
    /\ rs_btfs = 0 /\ rs_frees = 0 /\ rs_objs = 0 /\ rs_closes = 0

\* the call op with the name begins
RsCall(op, name) ==
    /\ rs_pc = "idle"
    /\ rs_op' = op
    /\ rs_name' = name

\* the call returns no Btf: an error, or Ok(None)
RsReturns(ret) ==
    /\ rs_pc' = "returned"
    /\ rs_ret' = ret
    /\ UNCHANGED drop_policy

\* the call returns Ok(Self { ptr, drop_policy, .. })
RsBtf(policy) ==
    /\ rs_pc' = "live"
    /\ rs_ret' = "Btf"
    /\ drop_policy' = policy

\* .unwrap() on an Err
RsPanics ==
    /\ rs_pc' = "panic"
    /\ rs_ret' = "none"
    /\ UNCHANGED drop_policy

\* Btf::from_path
FromPath(path) ==
    /\ RsCall("from_path", path)
    /\ IF HasNul(path)
       THEN RsReturns("InvalidInput") /\ UNCHANGED rs_btfs
       ELSE IF IsOk(create_bpf_entity_checked(rs_libbpf.btf))
            THEN RsBtf("SelfPtrOnly") /\ rs_btfs' = rs_btfs + 1
            ELSE RsReturns("Err") /\ UNCHANGED rs_btfs
    /\ UNCHANGED <<decVars, btfVars, qryVars, genVars, rs_libbpf, rs_frees, rs_objs, rs_closes>>

\* Btf::from_prog_id
FromProgId ==
    /\ RsCall("from_prog_id", <<>>)
    /\ IF ~rs_libbpf.prog
       THEN RsReturns("Err") /\ UNCHANGED rs_btfs
       ELSE IF IsOk(create_bpf_entity_checked(rs_libbpf.btf))
            THEN RsBtf("SelfPtrOnly") /\ rs_btfs' = rs_btfs + 1
            ELSE RsReturns("Err") /\ UNCHANGED rs_btfs
    /\ UNCHANGED <<decVars, btfVars, qryVars, genVars, rs_libbpf, rs_frees, rs_objs, rs_closes>>

\* Btf::from_bpf_object_raw
from_bpf_object_raw(ptr) ==
    IF create_bpf_entity_checked_opt(ptr) = Ok("btf") THEN Ok("Nothing")
    ELSE create_bpf_entity_checked_opt(ptr)

\* Btf::from_bpf_object, of an Object that owns the bpf_object
FromBpfObject ==
    /\ RsCall("from_bpf_object", <<>>)
    /\ \E r \in {from_bpf_object_raw(rs_libbpf.btf)} :
          CASE r = Ok("None") -> RsReturns("Internal")
            [] r.tag = "Ok" /\ r # Ok("None") -> RsBtf(r.val)
            [] OTHER -> RsReturns("Err")
    /\ UNCHANGED <<decVars, btfVars, qryVars, genVars, rs_libbpf, rs_btfs, rs_frees, rs_objs,
                   rs_closes>>

\* Btf::from_raw, up to the bpf_object opened
FromRaw(name) ==
    /\ RsCall("from_raw", name)
    /\ IF ~IsOk(CStringNew(name))
       THEN RsPanics /\ UNCHANGED rs_objs
       ELSE IF IsOk(create_bpf_entity_checked(rs_libbpf.open))
            THEN /\ rs_pc' = "open"
                 /\ rs_objs' = rs_objs + 1
                 /\ UNCHANGED <<rs_ret, drop_policy>>
            ELSE RsReturns("Err") /\ UNCHANGED rs_objs
    /\ UNCHANGED <<decVars, btfVars, qryVars, genVars, rs_libbpf, rs_btfs, rs_frees, rs_closes>>

\* Btf::from_raw, from Self::from_bpf_object_raw(bpf_obj) on
FromRawBtf ==
    /\ rs_pc = "open"
    /\ \E r \in {from_bpf_object_raw(rs_libbpf.btf)} :
          CASE r = Ok("None") -> RsReturns("None")
            [] r.tag = "Ok" /\ r # Ok("None") -> RsBtf("ObjPtr")
            [] OTHER -> RsReturns("Err")
    /\ UNCHANGED <<decVars, btfVars, qryVars, genVars, rs_op, rs_name, rs_libbpf, rs_btfs,
                   rs_frees, rs_objs, rs_closes>>

\* Btf::type_by_name; found is whether btf__find_by_name finds the name
TypeByName(name, found) ==
    /\ rs_pc = "live"
    /\ rs_op' = "type_by_name"
    /\ rs_name' = name
    /\ IF ~IsOk(CStringNew(name))
       THEN RsPanics
       ELSE /\ rs_ret' = (IF found THEN "Some" ELSE "None")
            /\ UNCHANGED <<rs_pc, drop_policy>>
    /\ UNCHANGED <<decVars, btfVars, qryVars, genVars, rs_libbpf, rs_btfs, rs_frees, rs_objs,
                   rs_closes>>

\* impl Drop for Btf
BtfDrop ==
    /\ rs_pc = "live"
    /\ rs_pc' = "dropped"
    /\ rs_frees' = (IF drop_policy = "SelfPtrOnly" THEN rs_frees + 1 ELSE rs_frees)
    /\ rs_closes' = (IF drop_policy = "ObjPtr" THEN rs_closes + 1 ELSE rs_closes)
    /\ UNCHANGED <<decVars, btfVars, qryVars, genVars, rs_op, rs_name, rs_ret, rs_libbpf,
                   drop_policy, rs_btfs, rs_objs>>

\* Btf::new of libbpf-cargo: let cname = CString::new(name)?; the call then goes on to
\* open the object ("runs")
BtfNewName(name) ==
    /\ RsCall("Btf::new", name)
    /\ IF ~IsOk(CStringNew(name))
       THEN RsReturns("Err")
       ELSE /\ rs_pc' = "runs"
            /\ UNCHANGED <<rs_ret, drop_policy>>
    /\ UNCHANGED <<decVars, btfVars, qryVars, genVars, rs_libbpf, rs_btfs, rs_frees, rs_objs,
                   rs_closes>>

NextRs ==
    \/ \E path \in RsNames : FromPath(path)
    \/ FromProgId
    \/ FromBpfObject
    \/ \E name \in RsNames : FromRaw(name)
    \/ FromRawBtf
    \/ \E name \in RsNames, found \in BOOLEAN : TypeByName(name, found)
    \/ BtfDrop
    \/ \E name \in RsNames : BtfNewName(name)

SpecRs == InitRs /\ [][NextRs]_vars
\* a call that has begun goes on, and the owner of a Btf lets go of it in the end
FairRs == SpecRs /\ WF_vars(FromRawBtf) /\ WF_vars(BtfDrop)

\* the call made last was given a name with a 0 byte in it
NulNameGiven ==
    /\ rs_op \in {"type_by_name", "from_raw", "Btf::new"}
    /\ HasNul(rs_name)

\* C25: a name with an embedded NUL byte, given to type_by_name, to Btf::from_raw or to
\* Btf::new, makes the call report an error to its caller; the call does not panic
C25_NulNameIsError ==
    NulNameGiven => rs_pc # "panic" /\ rs_ret \in {"InvalidInput", "Err"}

\* the same of the call that does so, Btf::new, and of the path given to from_path
C25_NulNameIsErrorChecked ==
    rs_op \in {"Btf::new", "from_path"} /\ HasNul(rs_name) =>
        rs_pc = "returned" /\ rs_ret \in {"InvalidInput", "Err"}

C25_Witness == NulNameGiven /\ rs_op = "Btf::new" /\ rs_pc = "returned"

C25_WitnessPanic == NulNameGiven /\ rs_op = "type_by_name" /\ rs_pc = "panic"

\* no handle is freed and no bpf_object closed that was not acquired, or more than once
NeverReleasedTwice == rs_frees <= rs_btfs /\ rs_closes <= rs_objs

\* all that was acquired is released
AllReleased == rs_frees = rs_btfs /\ rs_closes = rs_objs

\* C30: what was acquired for a Btf is released exactly once, by its owner: the drop of
\* a Btf of from_path or from_prog_id frees the btf handle, the drop of one borrowed
\* from an Object frees nothing, and the bpf_object that from_raw opened is closed
\* once in the end: by the drop of the Btf returned, or before from_raw returns no Btf
C30_ReleasedOnce ==
    /\ []NeverReleasedTwice
    /\ [](rs_pc = "dropped" => AllReleased)
    /\ [](rs_op = "from_raw" /\ rs_pc = "returned" => AllReleased)
    /\ (rs_objs = 1) ~> (rs_closes = 1 \/ rs_pc = "panic")

\* the same of the Btf that a call returned: its drop releases what was acquired for
\* it, once, and a Btf borrowed from an Object has acquired nothing
C30_ReleasedByDrop ==
    /\ []NeverReleasedTwice
    /\ [](rs_pc = "dropped" => AllReleased)
    /\ [](drop_policy = "Nothing" => rs_btfs = 0 /\ rs_objs = 0)
    /\ (rs_pc = "live") ~> (rs_pc = "panic" \/ (rs_pc = "dropped" /\ AllReleased))

\* from_raw has returned Ok(None) and the bpf_object it opened is still open
C30_WitnessLeak ==
    /\ rs_op = "from_raw" /\ rs_pc = "returned" /\ rs_ret = "None"
    /\ rs_objs = 1 /\ rs_closes = 0

\* the Btf of from_raw was dropped and the bpf_object closed
C30_Witness == rs_pc = "dropped" /\ drop_policy = "ObjPtr" /\ rs_closes = 1

(***************************************************************************)
(* Claims on the scan of the type table                                    *)
(***************************************************************************)
\* a decode that has begun goes on
FairDecode ==
    SpecDecode /\ WF_vars(BtfNewHeader \/ (\E ub \in UBOutcomes : LoadNowStep(ub)) \/ LoadNowDone)

\* the loop of load_now is about to decode the record at off
ScanStep == dpc = "load" /\ off < Len(type_data)

\* the iteration pushed one node and moved off behind the record it decoded: the common
\* header and what follows it for the kind and vlen of the record
ScanAdvanced ==
    LET info == Word(type_data, off + 4)
        kind == BtfKindTryFrom(get_kind(info))
    IN  /\ Len(ltypes') = Len(ltypes) + 1
        /\ off' = off + 12 + TrailingBytes(kind, get_vlen(info))
        /\ off' > off
        /\ off' <= Len(type_data)

\* the loop ends with Ok exactly when off is the length of the table
ScanEndsAtLength ==
    /\ [][dpc = "load" /\ dres' = "ok" => off = Len(type_data)]_vars
    /\ [][dpc = "load" /\ off = Len(type_data) => dres' = "ok"]_vars

\* C26: the scan of the type table goes forward only and ends: an iteration decodes the
\* record at off and adds 12 and the trailing length of its kind to off, so off grows
\* and never passes the end of the table, and the loop ends with Ok exactly when off is
\* the length of the table, or with an error
C26_ScanTerminates ==
    /\ [][ScanStep => (IF dpc' = "load" THEN ScanAdvanced ELSE dres' = "err")]_vars
    /\ ScanEndsAtLength
    /\ (dpc = "load") ~> (dpc = "done" /\ dres \in {"ok", "err"})

\* the same, with the trap of a name offset that is not in the string section as a
\* third way the loop ends
C26_ScanTerminatesOrTraps ==
    /\ [][ScanStep => (IF dpc' = "load" THEN ScanAdvanced ELSE dres' \in {"err", "panic"})]_vars
    /\ ScanEndsAtLength
    /\ (dpc = "load") ~> (dpc = "done" /\ dres \in {"ok", "err", "panic"})

\* a table of an array and a struct of one member was scanned: off went 0, 24, 48
C26_Witness ==
    /\ dpc = "done" /\ dres = "ok" /\ off = 48 /\ Len(type_data) = 48
    /\ Len(types) = 3 /\ types[2].kind = "Array" /\ types[3].kind = "Struct"

\* the scan ended with an error at a record behind the first
C26_WitnessError == dpc = "done" /\ dres = "err" /\ off > 0 /\ off < Len(type_data)

(***************************************************************************)
(* Claims on the Default implementation of a struct                        *)
(***************************************************************************)
\* the structs written with an impl of Default
StructsWithImpl == {p \in StructsWritten : p[1].has_impl_default}

\* the impl has as many initializers as the struct has fields, padding where the struct
\* has padding and the default of a member where it has the member
InitializerPerField(d) ==
    /\ Len(d.impl_default) = Len(d.fields)
    /\ \A j \in 1..Len(d.fields) :
          IF d.fields[j].pad
          THEN d.impl_default[j] = PadInit(d.fields[j].at, d.fields[j].len)
          ELSE d.impl_default[j].value = type_default(Self, d.fields[j].type_id).val

\* the member that the j-th field of the declaration d is written for
MemberOfField(d, j) == Cardinality({k \in 1..j : ~d.fields[k].pad})

\* each initializer is one of the field in its place
InitializersNamed(d) ==
    \A j \in 1..Len(d.fields) : d.impl_default[j].name = d.fields[j].name

\* C27: where type_definition returns text with an impl of Default for a struct, the
\* impl initializes every field of the struct written, members and padding, once and in
\* the order of the fields, wherever among the members the array of more than 32
\* elements is
C27_DefaultInitializesEveryField ==
    Generated => \A p \in StructsWithImpl : InitializerPerField(p[1]) /\ InitializersNamed(p[1])

\* the same, but that the initializer of a member without a name has the empty name and
\* not the name of its field
C27_DefaultInitializerPerField ==
    Generated =>
        \A p \in StructsWithImpl :
            /\ InitializerPerField(p[1])
            /\ \A j \in 1..Len(p[1].fields) :
                  p[1].impl_default[j].name =
                      (IF p[1].fields[j].pad \/ p[2].members[MemberOfField(p[1], j)].name # <<>>
                       THEN p[1].fields[j].name ELSE <<>>)

\* the array of 33 bytes is the last of three members, behind padding and two members
C27_Witness ==
    /\ Generated /\ qarg = IdY /\ Len(types) > IdW
    /\ Len(types[IdY + 1].members) = 3 /\ types[IdY + 1].members[3].type_id = IdX
    /\ Len(DeclNamed(Nm(83)).impl_default) = 4
    /\ DeclNamed(Nm(83)).fields[2].pad

\* a member without a name before the array
C27_WitnessNoName ==
    /\ Generated /\ qarg = IdY /\ Len(types) > IdW
    /\ types[IdY + 1].members[1].name = <<>>
    /\ DeclNamed(Nm(83)).has_impl_default

(***************************************************************************)
(* Claims on the Default implementation of a union                         *)
(***************************************************************************)
\* the loop of type_definition is about to process a Union
ProcessesUnion ==
    /\ gpc = "loop" /\ dependent_types # <<>>
    /\ Head(dependent_types) \notin processed
    /\ Head(dependent_types) < Len(types)
    /\ types[Head(dependent_types) + 1].kind = "Union"

\* the call has ended in a panic
Trapped == gpc = "done" /\ qret.tag = "Panic"

\* C28: type_definition returns text or an error for every union, one without members
\* too: the first initializer, which it writes into the impl of Default of the union,
\* is there whenever it is read
C28_UnionDefaultExists == [][ProcessesUnion => ~Trapped']_vars

\* the same for the unions that have a member, in graphs without an integer of more
\* than 248 bits
C28_UnionDefaultOfMember ==
    [][ProcessesUnion /\ types[Head(dependent_types) + 1].members # <<>> /\ ~HasWideInt(types)
          => ~Trapped']_vars

\* the call for a union without members has ended in a panic
C28_WitnessEmpty ==
    /\ Trapped /\ qop = "type_definition"
    /\ types[qarg + 1].kind = "Union" /\ types[qarg + 1].members = <<>>

\* the text of a union of two members was returned
C28_Witness ==
    /\ Generated /\ types[qarg + 1].kind = "Union" /\ Len(types[qarg + 1].members) = 2
    /\ Len(DeclNamed(types[qarg + 1].name).impl_default) = 1

(***************************************************************************)
(* Claims on the assertion of type_declaration                             *)
(***************************************************************************)
\* the member m is, behind modifiers and typedefs, an Int with the encoding Bool
BoolMember(m) ==
    LET sk == skip_mods_and_typedefs(Self, m.type_id)
    IN  /\ sk.tag = "Ok"
        /\ TypeOf(Self, sk.val).kind = "Int"
        /\ TypeOf(Self, sk.val).encoding = "Bool"

\* the loop of type_definition is about to process a struct or union with such a member
ProcessesBool ==
    /\ gpc = "loop" /\ dependent_types # <<>>
    /\ Head(dependent_types) \notin processed
    /\ Head(dependent_types) < Len(types)
    /\ types[Head(dependent_types) + 1].kind \in {"Struct", "Union"}
    /\ \E j \in 1..Len(types[Head(dependent_types) + 1].members) :
          BoolMember(types[Head(dependent_types) + 1].members[j])

\* every Int of the graph with the encoding Bool has 8 bits
BoolsAreBytes ==
    \A i \in 1..Len(types) :
        types[i].kind = "Int" /\ types[i].encoding = "Bool" => types[i].bits = 8

\* C29: the assertion of type_declaration holds wherever it is reached: an Int with the
\* encoding Bool that the decoder produced has 8 bits, so that type_declaration, and
\* type_definition and type_default with it, does not trap on it
C29_BoolAssertionHolds == [][ProcessesBool => ~Trapped']_vars

\* the same for the graphs in which an Int with the encoding Bool has 8 bits
C29_ByteBoolNeverTraps ==
    [][ProcessesBool /\ BoolsAreBytes /\ ~HasWideInt(types) => ~Trapped']_vars

\* the call for a struct with a member that is a Bool of 1 bit has ended in a panic
C29_WitnessTrap ==
    /\ Trapped /\ qop = "type_definition" /\ qarg = IdY
    /\ types[IdX + 1].kind = "Int" /\ types[IdX + 1].encoding = "Bool" /\ types[IdX + 1].bits = 1

\* the text of a struct with a member that is a Bool of 8 bits was returned
C29_Witness ==
    /\ Generated /\ qarg = IdY
    /\ types[IdX + 1].kind = "Int" /\ types[IdX + 1].encoding = "Bool" /\ types[IdX + 1].bits = 8
    /\ types[IdY + 1].kind = "Struct"

\* Btf::new returned a graph with an Int of 1 bit and the encoding Bool
C29_WitnessDecoded ==
    /\ built /\ dres = "ok" /\ Len(types) > 1
    /\ types[2].kind = "Int" /\ types[2].encoding = "Bool" /\ types[2].bits = 1

====
